---- MODULE Spec2Model ----
(***************************************************************************)
(* A model of the goscript runtime core: the type-descriptor arena and its *)
(* structural comparison (vm/src/metadata.rs) and the composite runtime    *)
(* objects (vm/src/objects.rs).                                            *)
(***************************************************************************)
EXTENDS Integers, Sequences, FiniteSets, TLC

VARIABLES
    metas,      \* MetadataObjs: the arena of type definitions, key = index
    probe,      \* the handle semantic_eq was last asked about (0: none yet)
    desc,       \* a descriptor register that ptr_to / unptr_to act on
    fault,      \* "none", or "panic" / "hang" once an operation failed fatally
    op,         \* the name of the metadata operation that took the last step
    vecs,       \* the Rc<RefCell<GosVec>> allocations, by identity
    hmaps,      \* the Rc<RefCell<GosHashMap>> allocations, by identity
    objs,       \* the SliceObj / ArrayObj / MapObj / StructObj values in use
    deepOf,     \* <<o, c>>: object c was made by deep_clone of object o
    sharing,    \* <<o, c>>: c was made by clone of o, neither regrown since
    grow,       \* the capacity request try_grow_vec last served, and its result
    ret,        \* what the last read of a map returned, and to which call
    uvCells,    \* the Rc<RefCell<UpValueState>> cells, in order of creation
    uvs,        \* the UpValue handles in use: the cell each one points to
    uvCloneOf,  \* <<h, c>>: handle c was made by clone of handle h
    pkg,        \* a PackageVal: members, member_indices and var_mapping
    func,       \* the FunctionVal the Emitter writes to (Emitter.f)
    pkg_pairs,  \* the PkgVarPairs patch list the Emitter registers pairs in
    emitted,    \* the last call on the function or the Emitter, and its result
    rcs,        \* the Rc<(object, RCount)> allocations that pointers own
    ptrs,       \* the PointerObj values in use
    cmp,        \* the comparison of two pointers that the last step made, if any
    vm,         \* a frame of the dispatch loop that runs func: pc, stack, calls made
    str         \* a StringObj, and the last re-slicing call with its result

vars ==
    <<metas, probe, desc, fault, op, vecs, hmaps, objs, deepOf, sharing, grow, ret,
      uvCells, uvs, uvCloneOf, pkg, func, pkg_pairs, emitted, rcs, ptrs, cmp, vm, str>>

objVars == <<vecs, hmaps, objs, deepOf, sharing>>

\* the state of the components that the arena and the objects do not touch
uvVars == <<uvCells, uvs, uvCloneOf>>

emVars == <<func, pkg_pairs, emitted>>

ptVars == <<rcs, ptrs, cmp>>

restVars == <<grow, ret, uvVars, pkg, emVars, ptVars, vm, str>>

\* restVars without the part that one component writes
notGrow == <<ret, uvVars, pkg, emVars, ptVars, vm, str>>

notRet == <<grow, uvVars, pkg, emVars, ptVars, vm, str>>

notUv == <<grow, ret, pkg, emVars, ptVars, vm, str>>

notPkg == <<grow, ret, uvVars, emVars, ptVars, vm, str>>

notEm == <<grow, ret, uvVars, pkg, ptVars, vm, str>>

notPt == <<grow, ret, uvVars, pkg, emVars, vm, str>>

\* the arena, the registers and the objects
coreVars == <<metas, probe, desc, op, objVars>>

\* ------------------------------------------------------------------------
\* Bounds

MaxNewMetas == 2      \* definitions interned after Metadata::new

MaxObjs == 2          \* composite objects the program holds at once

MaxLen == 2           \* length and capacity of a freshly constructed object

MaxVecLen == 2        \* elements a backing buffer may hold

MaxGrowBy == 6        \* how far past the capacity a requested length lies

MaxUpValues == 3      \* upvalue cells created in one run

MaxUvHandles == 2     \* UpValue handles the program holds at once

MaxMembers == 3       \* members added to a package

MaxCode == 2          \* instructions in the function when an emitting call starts

MaxConsts == 2        \* constants in the pool when add_const is called

MaxRuns == 2          \* times the dispatch loop runs the function

MaxRcs == 2           \* allocations that pointers can own

MaxPtrs == 2          \* pointers the program holds at once

MaxDrops == 1         \* times ref_sub_one is applied to one count cell

MaxStrLen == 4        \* bytes of a string

MaxBeyond == 2        \* how far an end bound lies outside [-(len + 1), len]

MaxLocals == 3        \* locals a function declares

MaxEntities == 2      \* identifiers a function declares

\* ------------------------------------------------------------------------
\* GosMetadata: a descriptor is (variant tag, arena key, category)

PtrTags == <<"NonPtr", "Ptr1", "Ptr2", "Ptr3", "Ptr4", "Ptr5", "Ptr6", "Ptr7">>

MetaCategory == {"Default", "Array", "Type", "ArrayType"}

Untyped == [tag |-> "Untyped", k |-> 0, c |-> "Default"]

GosMetadata(tag, k, c) == [tag |-> tag, k |-> k, c |-> c]

NonPtr(k, c) == GosMetadata("NonPtr", k, c)

Ptr1(k, c) == GosMetadata("Ptr1", k, c)

\* the depth a variant tag stands for (NonPtr = 0 .. Ptr7 = 7)
TagDepth(t) == CHOOSE i \in 0..7 : PtrTags[i + 1] = t

\* the indirection depth of a descriptor
Depth(d) == TagDepth(d.tag)

AllTags == {"Untyped"} \cup {PtrTags[i] : i \in 1..8}

\* every descriptor over the handles of an arena
Descriptors(m) ==
    {Untyped} \cup
    {GosMetadata(PtrTags[i], k, c) : i \in 1..8, k \in 1..Len(m), c \in MetaCategory}

\* ------------------------------------------------------------------------
\* MetadataType: one definition of the arena. Option<T> is a sequence of
\* length 0 or 1.

ChannelType == {"Send", "Recv", "SendRecv"}

MetadataType(kind, a, b, size, fields, sig, chan) ==
    [kind |-> kind, a |-> a, b |-> b, size |-> size, fields |-> fields,
     sig |-> sig, chan |-> chan]

SigMetadata(recv, params, results, variadic) ==
    [recv |-> recv, params |-> params, results |-> results, variadic |-> variadic]

SigMetadata_default == SigMetadata(<<>>, <<>>, <<>>, <<>>)

Prim(kind) == MetadataType(kind, Untyped, Untyped, 0, <<>>, SigMetadata_default, "")

SliceOrArray(elem, size) ==
    MetadataType("SliceOrArray", elem, Untyped, size, <<>>, SigMetadata_default, "")

Struct(f) == MetadataType("Struct", Untyped, Untyped, 0, f, SigMetadata_default, "")

Signature(s) == MetadataType("Signature", Untyped, Untyped, 0, <<>>, s, "")

Map(kmeta, vmeta) ==
    MetadataType("Map", kmeta, vmeta, 0, <<>>, SigMetadata_default, "")

Interface(f) == MetadataType("Interface", Untyped, Untyped, 0, f, SigMetadata_default, "")

Channel(typ, vmeta) ==
    MetadataType("Channel", vmeta, Untyped, 0, <<>>, SigMetadata_default, typ)

Named(underlying) ==
    MetadataType("Named", underlying, Untyped, 0, <<>>, SigMetadata_default, "")

\* Metadata::new interns these definitions, in this order
Metadata_new ==
    << Prim("Bool"), Prim("Int"), Prim("Int8"), Prim("Int16"), Prim("Int32"),
       Prim("Int64"), Prim("Uint"), Prim("Uint8"), Prim("Uint16"), Prim("Uint32"),
       Prim("Uint64"), Prim("Float32"), Prim("Float64"), Prim("Complex64"),
       Prim("Complex128"), Prim("Str"), Prim("Uint"),
       Signature(SigMetadata_default), Interface(<<>>) >>

mbool == NonPtr(1, "Default")

mint == NonPtr(2, "Default")

muint == NonPtr(7, "Default")

mstr == NonPtr(16, "Default")

unsafe_ptr == Ptr1(17, "Default")

default_sig == NonPtr(18, "Default")

empty_iface == NonPtr(19, "Default")

\* ------------------------------------------------------------------------
\* ptr_to / unptr_to: a descriptor, or Panic where the code is unreachable!()

Panic == [tag |-> "panic", k |-> 0, c |-> "Default"]

\* ptr_to that forgets the category of the descriptor it raises
ptr_to_DropsCategory(d) ==
    IF d.tag = "Untyped" \/ d.tag = "Ptr7" THEN Panic
    ELSE GosMetadata(PtrTags[TagDepth(d.tag) + 2], d.k, "Default")

\* ptr_to that saturates at Ptr7 instead of failing
ptr_to_Saturates(d) ==
    IF d.tag = "Untyped" THEN Panic
    ELSE IF d.tag = "Ptr7" THEN d
    ELSE GosMetadata(PtrTags[TagDepth(d.tag) + 2], d.k, d.c)

ptr_to(d) ==
    IF d.tag = "Untyped" \/ d.tag = "Ptr7" THEN Panic
    ELSE GosMetadata(PtrTags[TagDepth(d.tag) + 2], d.k, d.c)

unptr_to(d) ==
    IF d.tag = "Untyped" \/ d.tag = "NonPtr" THEN Panic
    ELSE GosMetadata(PtrTags[TagDepth(d.tag)], d.k, d.c)

into_type_category(d) ==
    IF d.tag = "Untyped" THEN Panic
    ELSE GosMetadata(d.tag, d.k,
                     CASE d.c = "Default" -> "Type"
                       [] d.c = "Array" -> "ArrayType"
                       [] OTHER -> d.c)

\* ------------------------------------------------------------------------
\* semantic_eq. The answer is "true", "false", or "panic" when the comparison
\* indexes a vector out of bounds.

RECURSIVE GosMetadata_semantic_eq(_, _, _)
RECURSIVE EqLoop(_, _, _, _)

\* for (i, x) in xs.iter().enumerate() { if !x.semantic_eq(&ys[i]) { return false } }
EqLoop(xs, ys, i, m) ==
    IF i > Len(xs) THEN "true"
    ELSE IF i > Len(ys) THEN "panic"
    ELSE LET r == GosMetadata_semantic_eq(xs[i], ys[i], m)
         IN  IF r = "true" THEN EqLoop(xs, ys, i + 1, m) ELSE r

\* Fields::semantic_eq with the length test the wrong way round
Fields_semantic_eq_LenFlip(a, b, m) ==
    IF Len(a) = Len(b) THEN "false" ELSE EqLoop(a, b, 1, m)

Fields_semantic_eq(a, b, m) ==
    IF Len(a) # Len(b) THEN "false" ELSE EqLoop(a, b, 1, m)

\* match (&self.x, &other.x) { (None, None) => true, (Some(a), Some(b)) => .., _ => false }
OptionEq(a, b, m) ==
    IF Len(a) = 0 /\ Len(b) = 0 THEN "true"
    ELSE IF Len(a) = 1 /\ Len(b) = 1 THEN GosMetadata_semantic_eq(a[1], b[1], m)
    ELSE "false"

SigMetadata_semantic_eq(a, b, m) ==
    LET r1 == OptionEq(a.recv, b.recv, m) IN
    IF r1 # "true" THEN r1
    ELSE IF Len(a.params) # Len(b.params) THEN "false"
    ELSE LET r2 == EqLoop(a.params, b.params, 1, m) IN
    IF r2 # "true" THEN r2
    ELSE IF Len(a.results) # Len(b.params) THEN "false"
    ELSE LET r3 == EqLoop(a.results, b.results, 1, m) IN
    IF r3 # "true" THEN r3
    ELSE OptionEq(a.variadic, b.variadic, m)

Primitives ==
    {"Bool", "Int", "Int8", "Int16", "Int32", "Int64", "Uint", "Uint8", "Uint16",
     "Uint32", "Uint64", "Float32", "Float64", "Complex64", "Complex128", "Str"}

\* the primitive arms of the match in MetadataType::semantic_eq
PrimitiveArms == Primitives \ {"Uint"}

MetadataType_semantic_eq(x, y, mc, m) ==
    IF x.kind # y.kind THEN "false"
    ELSE CASE x.kind \in PrimitiveArms -> "true"
           [] x.kind = "Struct" -> Fields_semantic_eq(x.fields, y.fields, m)
           [] x.kind = "Signature" -> SigMetadata_semantic_eq(x.sig, y.sig, m)
           [] x.kind = "SliceOrArray" ->
                IF mc \in {"Array", "ArrayType"} /\ x.size # y.size THEN "false"
                ELSE GosMetadata_semantic_eq(x.a, y.a, m)
           [] x.kind = "Map" ->
                LET r == GosMetadata_semantic_eq(x.a, y.a, m)
                IN  IF r = "true" THEN GosMetadata_semantic_eq(x.b, y.b, m) ELSE r
           [] x.kind = "Interface" -> Fields_semantic_eq(x.fields, y.fields, m)
           [] x.kind = "Channel" ->
                IF x.chan = y.chan THEN GosMetadata_semantic_eq(x.a, y.a, m) ELSE "false"
           [] x.kind = "Named" -> GosMetadata_semantic_eq(x.a, y.a, m)
           [] OTHER -> "false"

\* semantic_eq_impl without the same-handle shortcut
semantic_eq_impl_NoHandle(ak, ac, bk, bc, m) ==
    IF ac # bc THEN "false"
    ELSE MetadataType_semantic_eq(m[ak], m[bk], ac, m)

semantic_eq_impl(ak, ac, bk, bc, m) ==
    IF ac # bc THEN "false"
    ELSE IF ak = bk THEN "true"
    ELSE MetadataType_semantic_eq(m[ak], m[bk], ac, m)

GosMetadata_semantic_eq(a, b, m) ==
    IF a.tag = "Untyped" /\ b.tag = "Untyped" THEN "true"
    ELSE IF a.tag = b.tag /\ a.tag # "Untyped"
         THEN semantic_eq_impl(a.k, a.c, b.k, b.c, m)
    ELSE "false"

\* ------------------------------------------------------------------------
\* The heap of shared buffers and the composite objects that point into it

\* primitive GosValues, as elements and as map keys
Val == {0, 1}

Keys == {0, 1}

\* Option<Rc<..>>::None
None == 0

\* a buffer identity that no object holds is free (its last Rc was dropped)
Free == [live |-> FALSE, data |-> <<>>]

VecIds == 1..(MaxObjs + 1)

MapIds == 1..(MaxObjs + 1)

\* Rc::new(RefCell::new(..)): the identity the next allocation gets
NewVec == MaxObjs + 1

NewMap == MaxObjs + 1

\* Identities of allocations are renamed in the order in which the program's
\* variables first refer to them (no operation observes the name itself); an
\* allocation no object refers to has lost its last Rc and is freed.
FirstRef(id, os, f) == CHOOSE o \in DOMAIN os : os[o][f] = id /\ \A p \in 1..(o - 1) : os[p][f] # id

Referenced(os, f) == {os[o][f] : o \in DOMAIN os} \ {None}

Rank(id, os, f) ==
    1 + Cardinality({j \in Referenced(os, f) : FirstRef(j, os, f) < FirstRef(id, os, f)})

Renamed(os) ==
    [o \in DOMAIN os |->
        [os[o] EXCEPT !.vec = IF @ = None THEN None ELSE Rank(@, os, "vec"),
                      !.map = IF @ = None THEN None ELSE Rank(@, os, "map")]]

DropUnused(vs, os) ==
    [n \in DOMAIN vs |->
        IF \E id \in Referenced(os, "vec") : Rank(id, os, "vec") = n
        THEN vs[CHOOSE id \in Referenced(os, "vec") : Rank(id, os, "vec") = n]
        ELSE Free]

DropUnusedMaps(hs, os) ==
    [n \in DOMAIN hs |->
        IF \E id \in Referenced(os, "map") : Rank(id, os, "map") = n
        THEN hs[CHOOSE id \in Referenced(os, "map") : Rank(id, os, "map") = n]
        ELSE Free]

Obj(kind, meta, begin, end, soft_cap, vec, map, default_val, fields) ==
    [kind |-> kind, meta |-> meta, begin |-> begin, end |-> end,
     soft_cap |-> soft_cap, vec |-> vec, map |-> map,
     default_val |-> default_val, fields |-> fields]

\* the descriptors the objects carry: an array type and the slice type over it
ArrayMeta == NonPtr(Len(Metadata_new) + 1, "Array")

new_slice_from_array(array) == NonPtr(array.k, "Default")

SliceMeta == new_slice_from_array(ArrayMeta)

MapMeta == NonPtr(Len(Metadata_new) + 2, "Default")

StructMeta == NonPtr(Len(Metadata_new) + 3, "Default")

SliceObj(meta, begin, end, soft_cap, vec) ==
    Obj("slice", meta, begin, end, soft_cap, vec, None, 0, <<>>)

ArrayObj(meta, vec) == Obj("array", meta, 0, 0, 0, vec, None, 0, <<>>)

MapObj(meta, default_val, map) == Obj("map", meta, 0, 0, 0, None, map, default_val, <<>>)

StructObj(meta, fields) == Obj("struct", meta, 0, 0, 0, None, None, 0, fields)

\* the variables of the program that hold an object; "none" marks an unset one
ObjIds == 1..MaxObjs

NoObj == Obj("none", Untyped, 0, 0, 0, None, None, 0, <<>>)

Slices == {o \in ObjIds : objs[o].kind = "slice"}

Arrays == {o \in ObjIds : objs[o].kind = "array"}

Maps == {o \in ObjIds : objs[o].kind = "map"}

Structs == {o \in ObjIds : objs[o].kind = "struct"}

\* Rust's % on isize: the remainder truncates toward zero
RustRem(x, y) == IF x >= 0 THEN x % y ELSE -((-x) % y)

SliceObj_len(s) == s.end - s.begin

SliceObj_cap(s) == s.soft_cap - s.begin

\* SliceObj::get: Some(value) as <<value>>, None as <<>>
SliceObj_get(s, i, vs) ==
    IF s.begin + i < Len(vs[s.vec].data) THEN <<vs[s.vec].data[s.begin + i + 1]>>
    ELSE <<>>

RECURSIVE Log2(_)

\* the position of the highest set bit of n > 0
Log2(n) == IF n < 2 THEN 0 ELSE 1 + Log2(n \div 2)

RECURSIVE Pow2(_)

Pow2(e) == IF e = 0 THEN 1 ELSE 2 * Pow2(e - 1)

\* n rounded to the 24 significant bits of an f32, ties to the even mantissa
F32(n) ==
    IF n < Pow2(24) THEN n
    ELSE LET ulp == Pow2(Log2(n) - 23)
             q == n \div ulp
             r == n % ulp
         IN  IF 2 * r < ulp THEN q * ulp
             ELSE IF 2 * r > ulp THEN (q + 1) * ulp
             ELSE IF q % 2 = 0 THEN q * ulp
             ELSE (q + 1) * ulp

\* (cap as f32 * 1.25) as usize: the conversion and the product are rounded
\* to f32 (the product is held in quarters), the cast back truncates
GrowQuarter(cap) == F32(5 * F32(cap)) \div 4

RECURSIVE GrowLoop(_, _)

\* the while loop of grow_vec, for a capacity it terminates on
GrowLoop(cap, len) ==
    IF cap >= len THEN cap
    ELSE IF cap < 1024 THEN GrowLoop(cap * 2, len)
    ELSE GrowLoop(GrowQuarter(cap), len)

\* no capacity request served yet
NoGrow == [cap |-> 0, len |-> 0, soft_cap |-> 0, vec |-> "old"]

\* no map read yet
NoRet == [op |-> "none", o |-> 0, key |-> 0, val |-> <<>>]

\* ------------------------------------------------------------------------
\* Instructions, constants and EntIndex

NoType == "none"

\* Option<usize> source positions: None, or a position
Positions == {None, 1}

\* Instruction::new: an opcode, three optional type tags, an optional immediate
Instruction_new(o, t0, t1, t2, imm) ==
    [op |-> o, t0 |-> t0, t1 |-> t1, t2 |-> t2, imm |-> imm]

\* Instruction::from_u64: a raw 64-bit word in the place of an instruction
Instruction_from_u64(u) == Instruction_new("RAW", NoType, NoType, NoType, <<u>>)

\* key_to_u64: the 64-bit word that holds an arena key
key_to_u64(key) == key

\* Instruction::set_t2_with_index: the third tag slot holds a small index
set_t2_with_index(inst, i) ==
    [inst EXCEPT !.t2 = CASE i = -1 -> "index-1" [] i = 0 -> "index0"
                          [] i = 1 -> "index1" [] OTHER -> "index2"]

\* Instruction::set_imm824: an 8-bit and a 24-bit immediate packed together
set_imm824(inst, imm0, imm1) == [inst EXCEPT !.imm = <<imm0, imm1>>]

\* Instruction::code2index: the number an opcode is stored as
code2index(o) == CASE o = "ADD" -> 1 [] o = "SHL" -> 2 [] OTHER -> 3

\* GosValue::Int(i): wide * 2^31 + v with 0 <= v < 2^31 is the isize i
GosInt(wide, v) == [t |-> "Int", wide |-> wide, v |-> v]

GosBool(b) == [t |-> "Bool", wide |-> 0, v |-> IF b THEN 1 ELSE 0]

GosStr(s) == [t |-> "Str", wide |-> 0, v |-> s]

GosMetadataVal(m) == [t |-> "Metadata", wide |-> 0, v |-> m]

\* the literals a function is given: 5, 2^31 - 1, 2^31, true, false, "s"
Literals ==
    {GosInt(0, 5), GosInt(0, 2147483647), GosInt(1, 0), GosBool(TRUE), GosBool(FALSE),
     GosStr(1)}

\* GosValue::identical: the same type and the same value
identical(a, b) == a.t = b.t /\ a.wide = b.wide /\ a.v = b.v

\* OpIndex::try_from(i).ok().is_some(), for an isize i
FitsOpIndex(c) == c.wide \in {-1, 0}

\* OpIndex::try_from(i).unwrap(), for an i that fits
AsOpIndex(c) == IF c.wide = 0 THEN c.v ELSE (c.v - 2147483647) - 1

EntIndex(kind, i, j, o) == [kind |-> kind, i |-> i, j |-> j, op |-> o]

Const(i) == EntIndex("Const", i, 0, "")

LocalVar(i) == EntIndex("LocalVar", i, 0, "")

UpValueIndex(i) == EntIndex("UpValue", i, 0, "")

PackageMember(p, ident) == EntIndex("PackageMember", p, ident, "")

BuiltInVal(o) == EntIndex("BuiltInVal", 0, 0, o)

BuiltInType(m) == EntIndex("BuiltInType", m, 0, "")

Blank == EntIndex("Blank", 0, 0, "")

\* Option<EntIndex>::None
NoEntIndex == EntIndex("None", 0, 0, "")

\* the identifiers the checker resolved, as EntityKey
EntityKeys == {1}

\* FunctionVal::new: no code, no constant, no identifier bound, no local
FunctionVal_new(flag) ==
    [code |-> <<>>, pos |-> <<>>, consts |-> <<>>, entities |-> [k \in {} |-> Blank],
     local_alloc |-> 0, flag |-> flag]

\* no call on the function or the Emitter yet
NoCall ==
    [call |-> "none", entity |-> None, cst |-> GosInt(0, 0), index |-> NoEntIndex,
     lhs |-> "none", shift |-> FALSE, ret |-> NoEntIndex]

InitEmitter ==
    /\ func = FunctionVal_new("Default")
    /\ pkg_pairs = <<>>
    /\ emitted = NoCall

\* no frame runs the function
NoFrame == [pc |-> 0, stack |-> <<>>, calls |-> 0, runs |-> 0]

\* PointerObj: the variant, the allocation an owning or a member variant
\* holds (an index of rcs, 0 for none), and the index of a member, a field or
\* a package member
PointerObj(kind, rc, index) == [kind |-> kind, rc |-> rc, index |-> index]

\* a variable that holds no pointer
NoPtr == PointerObj("none", 0, 0)

Released == PointerObj("Released", 0, 0)

PkgMember(p, index) == PointerObj("PkgMember", p, index)

\* the variables of the program that hold a pointer
PtrIds == 1..MaxPtrs

\* no comparison of pointers yet
NoCmp == [a |-> NoPtr, b |-> NoPtr, result |-> "none"]

\* the record of a ref_sub_one call on the pointer p
SubOne(p) == [a |-> p, b |-> NoPtr, result |-> "ref_sub_one"]

InitPointers ==
    /\ rcs = <<>>
    /\ ptrs = [h \in PtrIds |-> NoPtr]
    /\ cmp = NoCmp

InitUpValues ==
    /\ uvCells = <<>>
    /\ uvs = [h \in 1..MaxUvHandles |-> 0]
    /\ uvCloneOf = {}

\* PackageVal::new: no member, no name, an empty var_mapping (Some)
PackageVal_new ==
    [members |-> <<>>, member_indices |-> [n \in {} |-> 0], var_mapping |-> <<[i \in {} |-> 0]>>]

\* StringObj: the shared buffer (Rc<String>, as its bytes) and the window
StringObj(data, begin, end) == [data |-> data, begin |-> begin, end |-> end]

\* StringObj::with_str
with_str(s) == StringObj(s, 0, Len(s))

\* the window of a string, of a slice or of the slice over an array; a usize
\* above isize::MAX is held as the negative isize with the same bits
Window(begin, end, soft_cap) == [begin |-> begin, end |-> end, soft_cap |-> soft_cap]

\* no re-slicing call yet
NoReslice ==
    [fn |-> "none", recv |-> Window(0, 0, 0), b |-> 0, e |-> 0, out |-> Window(0, 0, 0),
     status |-> "none"]

InitString == str = [obj |-> with_str(<<>>), call |-> NoReslice]

InitRest ==
    /\ grow = NoGrow
    /\ InitString
    /\ ret = NoRet
    /\ InitUpValues
    /\ pkg = PackageVal_new
    /\ InitEmitter
    /\ InitPointers
    /\ vm = NoFrame

InitHeap ==
    /\ vecs = [id \in VecIds |-> Free]
    /\ hmaps = [id \in MapIds |-> Free]
    /\ objs = [o \in ObjIds |-> NoObj]
    /\ deepOf = {}
    /\ sharing = {}

\* ------------------------------------------------------------------------
\* The arena: constructors intern a definition and return its descriptor

\* MetadataObjs::insert, as called by GosMetadata::new
insert(v) ==
    /\ Len(metas) < Len(Metadata_new) + MaxNewMetas
    /\ metas' = Append(metas, v)

\* the descriptor of the definition interned last
LastMeta == NonPtr(Len(metas), "Default")

new_array(elem_meta, size) ==
    /\ insert(SliceOrArray(elem_meta, size))
    /\ op' = "new_array"
    /\ UNCHANGED <<probe, desc, fault, objVars, restVars>>

new_slice(val_meta) ==
    /\ insert(SliceOrArray(val_meta, 0))
    /\ op' = "new_slice"
    /\ UNCHANGED <<probe, desc, fault, objVars, restVars>>

new_map(kmeta, vmeta) ==
    /\ insert(Map(kmeta, vmeta))
    /\ op' = "new_map"
    /\ UNCHANGED <<probe, desc, fault, objVars, restVars>>

new_interface(fields) ==
    /\ insert(Interface(fields))
    /\ op' = "new_interface"
    /\ UNCHANGED <<probe, desc, fault, objVars, restVars>>

new_channel(typ, val_meta) ==
    /\ insert(Channel(typ, val_meta))
    /\ op' = "new_channel"
    /\ UNCHANGED <<probe, desc, fault, objVars, restVars>>

new_struct(f) ==
    /\ insert(Struct(f))
    /\ op' = "new_struct"
    /\ UNCHANGED <<probe, desc, fault, objVars, restVars>>

new_sig(recv, params, results, variadic) ==
    /\ insert(Signature(SigMetadata(recv, params, results, variadic)))
    /\ op' = "new_sig"
    /\ UNCHANGED <<probe, desc, fault, objVars, restVars>>

\* debug_assert!(underlying.get_value_type(metas) != ValueType::Named)
new_named(underlying) ==
    /\ ~(underlying.tag = "NonPtr" /\ underlying.c = "Default"
          /\ metas[underlying.k].kind = "Named")
    /\ insert(Named(underlying))
    /\ op' = "new_named"
    /\ UNCHANGED <<probe, desc, fault, objVars, restVars>>

\* a.semantic_eq(&b, metas) is a read-only query: the step records the handle
\* of the definition it was asked about
semantic_eq(ak) ==
    /\ probe' = ak
    /\ op' = "semantic_eq"
    /\ UNCHANGED <<metas, desc, fault, objVars, restVars>>

NoProbe == 0

InitMeta ==
    /\ metas = Metadata_new
    /\ probe = NoProbe
    /\ desc = Untyped
    /\ fault = "none"
    /\ op = "init"
    /\ InitHeap
    /\ InitRest

NextMeta ==
    \/ \E r \in {<<>>, <<mint>>, <<mint, mint>>} : new_sig(<<>>, <<mint>>, r, <<>>)
    \/ \E f \in {<<mint>>, <<mint, LastMeta>>} : new_struct(f)
    \/ \E size \in 1..2 : new_array(mint, size)
    \/ new_slice(mint)
    \/ new_map(mint, mint)
    \/ new_interface(<<default_sig>>)
    \/ \E t \in {"Send", "SendRecv"} : new_channel(t, mint)
    \/ new_named(LastMeta)
    \/ \E ak \in 1..Len(metas) : semantic_eq(ak)

SpecMeta == InitMeta /\ [][NextMeta]_vars

\* ------------------------------------------------------------------------
\* Raising and lowering indirection of a descriptor

\* the fields of the Metadata struct
MetadataFields ==
    {NonPtr(k, "Default") : k \in (1..19) \ {17}} \cup {unsafe_ptr}

PtrTo ==
    /\ fault = "none"
    /\ op' = "ptr_to"
    /\ IF ptr_to(desc) = Panic
       THEN fault' = "panic" /\ desc' = desc
       ELSE fault' = fault /\ desc' = ptr_to(desc)
    /\ UNCHANGED <<metas, probe, objVars, restVars>>

UnptrTo ==
    /\ fault = "none"
    /\ op' = "unptr_to"
    /\ IF unptr_to(desc) = Panic
       THEN fault' = "panic" /\ desc' = desc
       ELSE fault' = fault /\ desc' = unptr_to(desc)
    /\ UNCHANGED <<metas, probe, objVars, restVars>>

IntoTypeCategory ==
    /\ fault = "none"
    /\ op' = "into_type_category"
    /\ IF into_type_category(desc) = Panic
       THEN fault' = "panic" /\ desc' = desc
       ELSE fault' = fault /\ desc' = into_type_category(desc)
    /\ UNCHANGED <<metas, probe, objVars, restVars>>

InitPtr ==
    /\ metas = Metadata_new
    /\ probe = NoProbe
    /\ desc \in MetadataFields \cup {Untyped}
    /\ fault = "none"
    /\ op = "init"
    /\ InitHeap
    /\ InitRest

NextPtr == PtrTo \/ UnptrTo \/ IntoTypeCategory

SpecPtr == InitPtr /\ [][NextPtr]_vars

\* ------------------------------------------------------------------------
\* SliceObj

\* an operation that fails fatally leaves every object as it was
Fatal(kind) == fault' = kind /\ UNCHANGED objVars

Vec(data) == [live |-> TRUE, data |-> data]

\* the outcome of an operation on a slice: its status, the slice and the heap
Outcome(status, s, vs) == [status |-> status, s |-> s, vs |-> vs]

\* grow_vec: the capacity loop never ends from capacity 0; the new buffer
\* holds the visible window only, and the window restarts at offset 0
grow_vec(s, cap, len, vs) ==
    IF cap = 0 THEN Outcome("hang", s, vs)
    ELSE IF s.vec = None \/ s.end > Len(vs[s.vec].data) THEN Outcome("panic", s, vs)
    ELSE Outcome("ok",
                 [s EXCEPT !.begin = 0, !.end = SliceObj_len(s),
                           !.soft_cap = GrowLoop(cap, len), !.vec = NewVec],
                 [vs EXCEPT ![NewVec] = Vec(SubSeq(vs[s.vec].data, s.begin + 1, s.end))])

try_grow_vec(s, len, vs) ==
    IF SliceObj_cap(s) < SliceObj_len(s) THEN Outcome("panic", s, vs)
    ELSE IF SliceObj_cap(s) >= len THEN Outcome("ok", s, vs)
    ELSE grow_vec(s, SliceObj_cap(s), len, vs)

\* push and append: grow if needed, then extend the Vec at its own end
append(s, vals, vs) ==
    LET new_len == SliceObj_len(s) + Len(vals)
        r == try_grow_vec(s, new_len, vs)
    IN  IF r.status # "ok" THEN r
        ELSE IF r.s.vec = None THEN Outcome("panic", s, vs)
        ELSE Outcome("ok", [r.s EXCEPT !.end = r.s.begin + new_len],
                     [r.vs EXCEPT ![r.s.vec] = Vec(r.vs[r.s.vec].data \o vals)])

push(s, val, vs) ==
    LET r == try_grow_vec(s, SliceObj_len(s) + 1, vs)
    IN  IF r.status # "ok" THEN r
        ELSE IF r.s.vec = None THEN Outcome("panic", s, vs)
        ELSE Outcome("ok", [r.s EXCEPT !.end = r.s.end + 1],
                     [r.vs EXCEPT ![r.s.vec] = Vec(Append(r.vs[r.s.vec].data, val))])

\* the pairs of the history relations that name the variable o
Naming(o, pairs) == {pr \in pairs : pr[1] = o \/ pr[2] = o}

\* a new object is assigned to the variable d; the object d held is dropped
Assign(d, obj, vs, hs) ==
    LET os == [objs EXCEPT ![d] = obj]
    IN  /\ fault' = fault
        /\ objs' = Renamed(os)
        /\ vecs' = DropUnused(vs, os)
        /\ hmaps' = DropUnusedMaps(hs, os)

\* a slice operation changed the slice in o in place; clones of o stop
\* sharing with it once its buffer was re-derived
Commit(o, r) ==
    IF r.status # "ok" THEN Fatal(r.status)
    ELSE /\ fault' = fault
         /\ objs' = Renamed([objs EXCEPT ![o] = r.s])
         /\ vecs' = DropUnused(r.vs, [objs EXCEPT ![o] = r.s])
         /\ sharing' = IF r.s.vec # objs[o].vec THEN sharing \ Naming(o, sharing)
                       ELSE sharing
         /\ UNCHANGED <<hmaps, deepOf>>

\* the history relations after variable d received an unrelated new object
Forget(d) ==
    /\ deepOf' = deepOf \ Naming(d, deepOf)
    /\ sharing' = sharing \ Naming(d, sharing)

SliceObj_new(d, len, cap, default_val) ==
    /\ fault = "none"
    /\ op' = op
    /\ IF cap < len THEN Fatal("panic")
       ELSE /\ Assign(d, SliceObj(SliceMeta, 0, len, cap, NewVec),
                      [vecs EXCEPT ![NewVec] = Vec([i \in 1..len |-> default_val])],
                      hmaps)
            /\ Forget(d)
    /\ UNCHANGED <<metas, probe, desc, restVars>>

SliceObj_with_data(d, val) ==
    /\ fault = "none"
    /\ op' = op
    /\ Assign(d, SliceObj(SliceMeta, 0, Len(val), Len(val), NewVec),
              [vecs EXCEPT ![NewVec] = Vec(val)], hmaps)
    /\ Forget(d)
    /\ UNCHANGED <<metas, probe, desc, restVars>>

SliceObj_new_nil(d) ==
    /\ fault = "none"
    /\ op' = op
    /\ Assign(d, SliceObj(SliceMeta, 0, 0, 0, None), vecs, hmaps)
    /\ Forget(d)
    /\ UNCHANGED <<metas, probe, desc, restVars>>

\* SliceObj::slice that takes the soft capacity from the end bound
slice_CapFromEnd(s, begin, end, max) ==
    LET self_len == SliceObj_len(s) + 1
        bi == begin
        ei == RustRem(self_len + end, self_len)
    IN  SliceObj(s.meta, s.begin + bi, s.begin + ei, s.begin + ei, s.vec)

\* the slice that s.slice(begin, end, max) returns
slice(s, begin, end, max) ==
    LET self_len == SliceObj_len(s) + 1
        self_cap == SliceObj_cap(s) + 1
        bi == begin
        ei == RustRem(self_len + end, self_len)
        mi == RustRem(self_cap + max, self_cap)
    IN  SliceObj(s.meta, s.begin + bi, s.begin + ei, s.begin + mi, s.vec)

\* bounds of a well-formed slice expression s[begin:end:max], -1 for omitted
SliceBounds(s) ==
    {bd \in (0..SliceObj_len(s)) \X (-1..SliceObj_len(s)) \X (-1..SliceObj_cap(s)) :
        /\ (bd[2] # -1 => bd[1] <= bd[2])
        /\ (bd[3] # -1 => (IF bd[2] = -1 THEN SliceObj_len(s) ELSE bd[2]) <= bd[3])}

SliceObj_slice(o, d, begin, end, max) ==
    /\ fault = "none"
    /\ o \in Slices
    /\ <<begin, end, max>> \in SliceBounds(objs[o])
    /\ op' = op
    /\ Assign(d, slice(objs[o], begin, end, max), vecs, hmaps)
    /\ Forget(d)
    /\ UNCHANGED <<metas, probe, desc, restVars>>

\* impl Clone for SliceObj with a buffer of its own
SliceObj_Clone_Copies(s, vs) ==
    [obj |-> [s EXCEPT !.vec = IF s.vec = None THEN None ELSE NewVec],
     vs |-> IF s.vec = None THEN vs ELSE [vs EXCEPT ![NewVec] = vs[s.vec]]]

\* impl Clone for SliceObj: the window is copied, the Rc is shared
SliceObj_Clone(s, vs) == [obj |-> s, vs |-> vs]

SliceObj_clone(o, d) ==
    /\ fault = "none"
    /\ o \in Slices
    /\ d # o
    /\ op' = op
    /\ LET r == SliceObj_Clone(objs[o], vecs) IN Assign(d, r.obj, r.vs, hmaps)
    /\ deepOf' = deepOf \ Naming(d, deepOf)
    /\ sharing' = (sharing \ Naming(d, sharing)) \cup {<<o, d>>}
    /\ UNCHANGED <<metas, probe, desc, restVars>>

\* SliceObj::deep_clone that keeps the Rc of the original
SliceObj_DeepClone_Shares(s, vs) ==
    [obj |-> SliceObj(s.meta, 0, SliceObj_cap(s), SliceObj_cap(s), s.vec), vs |-> vs]

\* SliceObj::deep_clone: a window from 0 to the capacity over a new buffer
\* that holds a copy of the visible elements
SliceObj_DeepClone(s, vs) ==
    [obj |-> SliceObj(s.meta, 0, SliceObj_cap(s), SliceObj_cap(s),
                      IF s.vec = None THEN None ELSE NewVec),
     vs |-> IF s.vec = None THEN vs
            ELSE [vs EXCEPT ![NewVec] =
                    Vec(SubSeq(vs[s.vec].data, s.begin + 1, s.end))]]

SliceObj_deep_clone(o, d) ==
    /\ fault = "none"
    /\ o \in Slices
    /\ d # o
    /\ op' = op
    /\ IF objs[o].vec # None /\ objs[o].end > Len(vecs[objs[o].vec].data)
       THEN Fatal("panic")
       ELSE /\ LET r == SliceObj_DeepClone(objs[o], vecs)
               IN  Assign(d, r.obj, r.vs, hmaps)
            /\ deepOf' = (deepOf \ Naming(d, deepOf)) \cup {<<o, d>>}
            /\ sharing' = sharing \ Naming(d, sharing)
    /\ UNCHANGED <<metas, probe, desc, restVars>>

SliceObj_push(o, val) ==
    /\ fault = "none"
    /\ o \in Slices
    /\ LET r == push(objs[o], val, vecs)
       IN  /\ r.status = "ok" => Len(r.vs[r.s.vec].data) <= MaxVecLen
           /\ Commit(o, r)
    /\ op' = op
    /\ UNCHANGED <<metas, probe, desc, restVars>>

SliceObj_append(o, vals) ==
    /\ fault = "none"
    /\ o \in Slices
    /\ LET r == append(objs[o], vals, vecs)
       IN  /\ r.status = "ok" => Len(r.vs[r.s.vec].data) <= MaxVecLen
           /\ Commit(o, r)
    /\ op' = op
    /\ UNCHANGED <<metas, probe, desc, restVars>>

SliceObj_set(o, i, val) ==
    /\ fault = "none"
    /\ o \in Slices
    /\ op' = op
    /\ IF objs[o].vec = None \/ objs[o].begin + i >= Len(vecs[objs[o].vec].data)
       THEN Fatal("panic")
       ELSE /\ fault' = fault
            /\ vecs' = [vecs EXCEPT ![objs[o].vec].data[objs[o].begin + i + 1] = val]
            /\ UNCHANGED <<hmaps, objs, deepOf, sharing>>
    /\ UNCHANGED <<metas, probe, desc, restVars>>

\* SliceObj::with_array: a slice over the Rc of an array
with_array(arr, begin, end, vs) ==
    LET len == Len(vs[arr.vec].data)
        self_end == len + 1
        bi == begin
        ei == RustRem(self_end + end, self_end)
    IN  SliceObj(new_slice_from_array(arr.meta), bi, ei, len, arr.vec)

SliceObj_with_array(o, d, begin, end) ==
    /\ fault = "none"
    /\ o \in Arrays
    /\ d # o
    /\ begin \in 0..Len(vecs[objs[o].vec].data)
    /\ end \in {-1} \cup (begin..Len(vecs[objs[o].vec].data))
    /\ op' = op
    /\ Assign(d, with_array(objs[o], begin, end, vecs), vecs, hmaps)
    /\ Forget(d)
    /\ UNCHANGED <<metas, probe, desc, restVars>>

\* ------------------------------------------------------------------------
\* ArrayObj

ArrayObj_with_size(d, size, val) ==
    /\ fault = "none"
    /\ op' = op
    /\ Assign(d, ArrayObj(ArrayMeta, NewVec),
              [vecs EXCEPT ![NewVec] = Vec([i \in 1..size |-> val])], hmaps)
    /\ Forget(d)
    /\ UNCHANGED <<metas, probe, desc, restVars>>

ArrayObj_with_data(d, val) ==
    /\ fault = "none"
    /\ op' = op
    /\ Assign(d, ArrayObj(ArrayMeta, NewVec), [vecs EXCEPT ![NewVec] = Vec(val)], hmaps)
    /\ Forget(d)
    /\ UNCHANGED <<metas, probe, desc, restVars>>

\* ArrayObj::deep_clone: a new Rc over a copy of every element
ArrayObj_DeepClone(a, vs) ==
    [obj |-> ArrayObj(a.meta, NewVec), vs |-> [vs EXCEPT ![NewVec] = Vec(vs[a.vec].data)]]

ArrayObj_deep_clone(o, d) ==
    /\ fault = "none"
    /\ o \in Arrays
    /\ d # o
    /\ op' = op
    /\ LET r == ArrayObj_DeepClone(objs[o], vecs) IN Assign(d, r.obj, r.vs, hmaps)
    /\ deepOf' = (deepOf \ Naming(d, deepOf)) \cup {<<o, d>>}
    /\ sharing' = sharing \ Naming(d, sharing)
    /\ UNCHANGED <<metas, probe, desc, restVars>>

\* impl Clone for ArrayObj: the Rc is shared
ArrayObj_clone(o, d) ==
    /\ fault = "none"
    /\ o \in Arrays
    /\ d # o
    /\ op' = op
    /\ Assign(d, objs[o], vecs, hmaps)
    /\ Forget(d)
    /\ UNCHANGED <<metas, probe, desc, restVars>>

\* a write of element i through ArrayObj::borrow_data_mut
ArrayObj_borrow_data_mut(o, i, val) ==
    /\ fault = "none"
    /\ o \in Arrays
    /\ op' = op
    /\ IF i >= Len(vecs[objs[o].vec].data) THEN Fatal("panic")
       ELSE /\ fault' = fault
            /\ vecs' = [vecs EXCEPT ![objs[o].vec].data[i + 1] = val]
            /\ UNCHANGED <<hmaps, objs, deepOf, sharing>>
    /\ UNCHANGED <<metas, probe, desc, restVars>>

\* ------------------------------------------------------------------------
\* MapObj: a GosHashMap is a function from the keys it contains

HashMap(data) == [live |-> TRUE, data |-> data]

EmptyMap == [k \in {} |-> 0]

\* HashMap::insert that keeps the value of a key that is present
HashMap_insert_KeepsOld(m, key, val) ==
    [k \in DOMAIN m \cup {key} |-> IF k \in DOMAIN m THEN m[k] ELSE val]

HashMap_insert(m, key, val) ==
    [k \in DOMAIN m \cup {key} |-> IF k = key THEN val ELSE m[k]]

MapObj_new(d, default_val) ==
    /\ fault = "none"
    /\ op' = op
    /\ Assign(d, MapObj(MapMeta, default_val, NewMap), vecs,
              [hmaps EXCEPT ![NewMap] = HashMap(EmptyMap)])
    /\ Forget(d)
    /\ UNCHANGED <<metas, probe, desc, restVars>>

MapObj_new_nil(d, default_val) ==
    /\ fault = "none"
    /\ op' = op
    /\ Assign(d, MapObj(MapMeta, default_val, None), vecs, hmaps)
    /\ Forget(d)
    /\ UNCHANGED <<metas, probe, desc, restVars>>

\* MapObj::deep_clone: a new Rc over a copy of every entry, if there is a map
MapObj_DeepClone(m, hs) ==
    [obj |-> [m EXCEPT !.map = IF m.map = None THEN None ELSE NewMap],
     hs |-> IF m.map = None THEN hs ELSE [hs EXCEPT ![NewMap] = hs[m.map]]]

MapObj_deep_clone(o, d) ==
    /\ fault = "none"
    /\ o \in Maps
    /\ d # o
    /\ op' = op
    /\ LET r == MapObj_DeepClone(objs[o], hmaps) IN Assign(d, r.obj, vecs, r.hs)
    /\ deepOf' = (deepOf \ Naming(d, deepOf)) \cup {<<o, d>>}
    /\ sharing' = sharing \ Naming(d, sharing)
    /\ UNCHANGED <<metas, probe, desc, restVars>>

\* impl Clone for MapObj: the default value is copied, the Rc is shared
MapObj_Clone(m, hs) == [obj |-> m, hs |-> hs]

MapObj_clone(o, d) ==
    /\ fault = "none"
    /\ o \in Maps
    /\ d # o
    /\ op' = op
    /\ LET r == MapObj_Clone(objs[o], hmaps) IN Assign(d, r.obj, vecs, r.hs)
    /\ deepOf' = deepOf \ Naming(d, deepOf)
    /\ sharing' = (sharing \ Naming(d, sharing)) \cup {<<o, d>>}
    /\ UNCHANGED <<metas, probe, desc, restVars>>

\* MapObj::get that answers 0 for an absent key
MapObj_Get_ZeroOnMiss(m, key, hs) ==
    IF key \in DOMAIN hs[m.map].data THEN hs[m.map].data[key] ELSE 0

\* MapObj::get: the stored value, or the default without inserting
MapObj_Get(m, key, hs) ==
    IF key \in DOMAIN hs[m.map].data THEN hs[m.map].data[key] ELSE m.default_val

\* MapObj::try_get: Some(value) as <<value>>, None as <<>>
MapObj_TryGet(m, key, hs) ==
    IF key \in DOMAIN hs[m.map].data THEN <<hs[m.map].data[key]>> ELSE <<>>

\* the hash maps after MapObj::insert on a map that is not nil
MapObj_Insert(m, key, val, hs) ==
    [hs EXCEPT ![m.map].data = HashMap_insert(@, key, val)]

MapObj_insert(o, key, val) ==
    /\ fault = "none"
    /\ o \in Maps
    /\ op' = op
    /\ IF objs[o].map = None THEN Fatal("panic")
       ELSE /\ fault' = fault
            /\ hmaps' = MapObj_Insert(objs[o], key, val, hmaps)
            /\ UNCHANGED <<vecs, objs, deepOf, sharing>>
    /\ UNCHANGED <<metas, probe, desc, restVars>>

\* MapObj::touch_key that stores the default over a value that is present
MapObj_TouchKey_Overwrites(m, key, hs) ==
    [hs EXCEPT ![m.map].data = HashMap_insert(@, key, m.default_val)]

\* the hash maps after MapObj::touch_key on a map that is not nil
MapObj_TouchKey(m, key, hs) ==
    IF key \in DOMAIN hs[m.map].data THEN hs
    ELSE [hs EXCEPT ![m.map].data = HashMap_insert(@, key, m.default_val)]

MapObj_touch_key(o, key) ==
    /\ fault = "none"
    /\ o \in Maps
    /\ op' = op
    /\ IF objs[o].map = None THEN Fatal("panic")
       ELSE /\ fault' = fault
            /\ hmaps' = MapObj_TouchKey(objs[o], key, hmaps)
            /\ UNCHANGED <<vecs, objs, deepOf, sharing>>
    /\ UNCHANGED <<metas, probe, desc, restVars>>

\* a read of a map: a nil map panics in borrow_data, any other map is left
\* as it is and the answer goes to the caller
MapRead(o, name, key, val) ==
    /\ fault = "none"
    /\ o \in Maps
    /\ op' = op
    /\ IF objs[o].map = None THEN Fatal("panic") /\ ret' = ret
       ELSE /\ fault' = fault
            /\ ret' = [op |-> name, o |-> o, key |-> key, val |-> val]
            /\ UNCHANGED objVars
    /\ UNCHANGED <<metas, probe, desc, notRet>>

MapObj_get(o, key) == MapRead(o, "get", key, <<MapObj_Get(objs[o], key, hmaps)>>)

MapObj_try_get(o, key) == MapRead(o, "try_get", key, MapObj_TryGet(objs[o], key, hmaps))

MapObj_len(o) == MapRead(o, "len", 0, <<Cardinality(DOMAIN hmaps[objs[o].map].data)>>)

\* ------------------------------------------------------------------------
\* StructObj: the fields are owned by the object itself

StructObj_new(d, fields) ==
    /\ fault = "none"
    /\ op' = op
    /\ Assign(d, StructObj(StructMeta, fields), vecs, hmaps)
    /\ Forget(d)
    /\ UNCHANGED <<metas, probe, desc, restVars>>

StructObj_deep_clone(o, d) ==
    /\ fault = "none"
    /\ o \in Structs
    /\ d # o
    /\ op' = op
    /\ Assign(d, StructObj(objs[o].meta, objs[o].fields), vecs, hmaps)
    /\ deepOf' = (deepOf \ Naming(d, deepOf)) \cup {<<o, d>>}
    /\ sharing' = sharing \ Naming(d, sharing)
    /\ UNCHANGED <<metas, probe, desc, restVars>>

\* a write of field i of a StructObj
StructObj_set_field(o, i, val) ==
    /\ fault = "none"
    /\ o \in Structs
    /\ op' = op
    /\ IF i >= Len(objs[o].fields) THEN Fatal("panic")
       ELSE /\ fault' = fault
            /\ objs' = [objs EXCEPT ![o].fields[i + 1] = val]
            /\ UNCHANGED <<vecs, hmaps, deepOf, sharing>>
    /\ UNCHANGED <<metas, probe, desc, restVars>>

InitObj ==
    /\ metas = Metadata_new
    /\ probe = NoProbe
    /\ desc = Untyped
    /\ fault = "none"
    /\ op = "init"
    /\ InitHeap
    /\ InitRest

NextObj ==
    \/ \E d \in ObjIds : \E len, cap \in 0..MaxLen : SliceObj_new(d, len, cap, 0)
    \/ \E d \in ObjIds : \E val \in {<<>>, <<0>>, <<0, 1>>} : SliceObj_with_data(d, val)
    \/ \E d \in ObjIds : SliceObj_new_nil(d)
    \/ \E o \in Arrays : \E d \in ObjIds : \E b \in 0..MaxLen : \E e \in -1..MaxLen :
          SliceObj_with_array(o, d, b, e)
    \/ \E o \in Slices : \E d \in ObjIds : \E bd \in SliceBounds(objs[o]) :
          SliceObj_slice(o, d, bd[1], bd[2], bd[3])
    \/ \E o, d \in ObjIds : SliceObj_clone(o, d)
    \/ \E o, d \in ObjIds : SliceObj_deep_clone(o, d)
    \/ \E o \in ObjIds : \E v \in Val : SliceObj_push(o, v)
    \/ \E o \in ObjIds : \E vals \in {<<>>, <<1>>, <<1, 0>>} : SliceObj_append(o, vals)
    \/ \E o \in ObjIds : \E i \in 0..(MaxVecLen - 1) : \E v \in Val : SliceObj_set(o, i, v)
    \/ \E d \in ObjIds : \E size \in 1..MaxLen : ArrayObj_with_size(d, size, 0)
    \/ \E d \in ObjIds : ArrayObj_with_data(d, <<0, 1>>)
    \/ \E o, d \in ObjIds : ArrayObj_deep_clone(o, d)
    \/ \E o, d \in ObjIds : ArrayObj_clone(o, d)
    \/ \E o \in ObjIds : \E i \in 0..(MaxVecLen - 1) : \E v \in Val :
          ArrayObj_borrow_data_mut(o, i, v)
    \/ \E d \in ObjIds : MapObj_new(d, 0)
    \/ \E d \in ObjIds : MapObj_new_nil(d, 0)
    \/ \E o, d \in ObjIds : MapObj_deep_clone(o, d)
    \/ \E o, d \in ObjIds : MapObj_clone(o, d)
    \/ \E o \in ObjIds : \E k \in Keys : \E v \in Val : MapObj_insert(o, k, v)
    \/ \E o \in ObjIds : \E k \in Keys : MapObj_touch_key(o, k)
    \/ \E d \in ObjIds : StructObj_new(d, <<0, 0>>)
    \/ \E o, d \in ObjIds : StructObj_deep_clone(o, d)
    \/ \E o \in ObjIds : \E i \in 0..MaxLen : \E v \in Val : StructObj_set_field(o, i, v)

SpecObj == InitObj /\ [][NextObj]_vars

\* ------------------------------------------------------------------------
\* The capacity arithmetic of try_grow_vec (SpecGrow): the request is served
\* on the empty slice SliceObj::new(0, cap), whose buffer holds no element

\* capacities around the switch from doubling to the f32 product, and around
\* 2^24, where an f32 stops holding every integer
GrowCaps ==
    {0, 1, 2, 3, 511, 512, 1023, 1024, 1025, 1026, 1027, 1028,
     16777215, 16777216, 16777217, 16777218, 16777219}

GrowLens(cap) == {len \in (cap - 1)..(cap + MaxGrowBy) : len >= 0} \cup {2 * cap + 1}

SliceObj_try_grow_vec(cap, len) ==
    /\ fault = "none"
    /\ LET s == SliceObj(SliceMeta, 0, 0, cap, 1)
           r == try_grow_vec(s, len, [vecs EXCEPT ![1] = Vec(<<>>)])
       IN  IF r.status # "ok" THEN fault' = r.status /\ grow' = grow
           ELSE /\ fault' = fault
                /\ grow' = [cap |-> cap, len |-> len, soft_cap |-> r.s.soft_cap,
                            vec |-> IF r.s.vec = s.vec THEN "old" ELSE "new"]
    /\ UNCHANGED <<coreVars, notGrow>>

InitGrow ==
    /\ metas = Metadata_new
    /\ probe = NoProbe
    /\ desc = Untyped
    /\ fault = "none"
    /\ op = "init"
    /\ InitHeap
    /\ InitRest

NextGrow == \E cap \in GrowCaps : \E len \in GrowLens(cap) : SliceObj_try_grow_vec(cap, len)

SpecGrow == InitGrow /\ [][NextGrow]_vars

\* ------------------------------------------------------------------------
\* The loop of grow_vec, one iteration a step (SpecLoop)

\* the body of the while loop: the capacity after one iteration
GrowBody(cap) == IF cap < 1024 THEN cap * 2 ELSE GrowQuarter(cap)

\* push or append on a non-nil slice of capacity cap needs the length len,
\* which the capacity does not cover: try_grow_vec calls grow_vec, which
\* enters the loop with its local cap
grow_vec_enter(cap, len) ==
    /\ fault = "none"
    /\ grow.vec # "loop"
    /\ cap < len
    /\ grow' = [cap |-> cap, len |-> len, soft_cap |-> cap, vec |-> "loop"]
    /\ UNCHANGED <<fault, coreVars, notGrow>>

\* while cap < len: one iteration
grow_vec_iterate ==
    /\ grow.vec = "loop"
    /\ grow.soft_cap < grow.len
    /\ grow' = [grow EXCEPT !.soft_cap = GrowBody(@)]
    /\ UNCHANGED <<fault, coreVars, notGrow>>

\* the loop is left: the new buffer is built with the capacity reached
grow_vec_leave ==
    /\ grow.vec = "loop"
    /\ grow.soft_cap >= grow.len
    /\ grow' = [grow EXCEPT !.vec = "new"]
    /\ UNCHANGED <<fault, coreVars, notGrow>>

NextLoop ==
    \/ \E cap \in GrowCaps : \E len \in GrowLens(cap) : grow_vec_enter(cap, len)
    \/ grow_vec_iterate
    \/ grow_vec_leave

SpecLoop == InitGrow /\ [][NextLoop]_vars

\* ------------------------------------------------------------------------
\* The maps alone, with their reads (SpecMap)

InitMap ==
    /\ metas = Metadata_new
    /\ probe = NoProbe
    /\ desc = Untyped
    /\ fault = "none"
    /\ op = "init"
    /\ InitHeap
    /\ InitRest

NextMap ==
    \/ \E d \in ObjIds : \E dv \in Val : MapObj_new(d, dv)
    \/ \E d \in ObjIds : MapObj_new_nil(d, 0)
    \/ \E o, d \in ObjIds : MapObj_deep_clone(o, d)
    \/ \E o, d \in ObjIds : MapObj_clone(o, d)
    \/ \E o \in ObjIds : \E k \in Keys : \E v \in Val : MapObj_insert(o, k, v)
    \/ \E o \in ObjIds : \E k \in Keys : MapObj_touch_key(o, k)
    \/ \E o \in ObjIds : \E k \in Keys : MapObj_get(o, k)
    \/ \E o \in ObjIds : \E k \in Keys : MapObj_try_get(o, k)
    \/ \E o \in ObjIds : MapObj_len(o)

SpecMap == InitMap /\ [][NextMap]_vars

\* ------------------------------------------------------------------------
\* UpValue (SpecUpValue): handles onto shared cells that are Open or Closed

UvHandles == 1..MaxUvHandles

\* UpValueState::Open(d) and UpValueState::Closed(v); born records the state
\* the cell was created in
Open(d) == [state |-> "Open", x |-> d, born |-> "Open"]

Closed(v, born) == [state |-> "Closed", x |-> v, born |-> born]

\* the handles that hold an upvalue
Held == {h \in UvHandles : uvs[h] # 0}

\* the handle h receives the cell id; it is no longer the clone it was
Bind(h, id) ==
    /\ uvs' = [uvs EXCEPT ![h] = id]
    /\ uvCloneOf' = uvCloneOf \ {pr \in uvCloneOf : pr[1] = h \/ pr[2] = h}

UpValue_new(h, d) ==
    /\ fault = "none"
    /\ Len(uvCells) < MaxUpValues
    /\ uvCells' = Append(uvCells, Open(d))
    /\ Bind(h, Len(uvCells) + 1)
    /\ UNCHANGED <<coreVars, fault, notUv>>

UpValue_new_closed(h, v) ==
    /\ fault = "none"
    /\ Len(uvCells) < MaxUpValues
    /\ uvCells' = Append(uvCells, Closed(v, "Closed"))
    /\ Bind(h, Len(uvCells) + 1)
    /\ UNCHANGED <<coreVars, fault, notUv>>

\* a clone that gets a cell of its own holding a copy of the state
UpValue_Clone_Copies(id, cells) == [id |-> Len(cells) + 1, cells |-> Append(cells, cells[id])]

\* derive(Clone) on UpValue: the Rc is cloned, the cell is shared
UpValue_Clone(id, cells) == [id |-> id, cells |-> cells]

UpValue_clone(h, c) ==
    /\ fault = "none"
    /\ h \in Held
    /\ c # h
    /\ LET r == UpValue_Clone(uvs[h], uvCells)
       IN  /\ Len(r.cells) <= MaxUpValues
           /\ uvCells' = r.cells
           /\ uvs' = [uvs EXCEPT ![c] = r.id]
    /\ uvCloneOf' = (uvCloneOf \ {pr \in uvCloneOf : pr[1] = c \/ pr[2] = c}) \cup {<<h, c>>}
    /\ UNCHANGED <<coreVars, fault, notUv>>

\* UpValue::close: the cell becomes Closed(val), whatever it held
UpValue_close(h, val) ==
    /\ fault = "none"
    /\ h \in Held
    /\ uvCells' = [uvCells EXCEPT ![uvs[h]] = Closed(val, @.born)]
    /\ UNCHANGED <<coreVars, fault, notUv, uvs, uvCloneOf>>

\* UpValue::desc: the descriptor of an Open upvalue, unreachable!() otherwise
UpValue_desc(h) ==
    /\ fault = "none"
    /\ h \in Held
    /\ fault' = IF uvCells[uvs[h]].state = "Open" THEN fault ELSE "panic"
    /\ UNCHANGED <<coreVars, notUv, uvVars>>

\* UpValue::ref_sub_one and mark_dirty read the cell and reach into the
\* closed value's count cells only
UpValue_ref_sub_one(h) ==
    /\ fault = "none"
    /\ h \in Held
    /\ UNCHANGED vars

UpValue_mark_dirty(h) ==
    /\ fault = "none"
    /\ h \in Held
    /\ UNCHANGED vars

InitUpValue ==
    /\ metas = Metadata_new
    /\ probe = NoProbe
    /\ desc = Untyped
    /\ fault = "none"
    /\ op = "init"
    /\ InitHeap
    /\ InitRest

NextUpValue ==
    \/ \E h \in UvHandles : \E d \in Val : UpValue_new(h, d)
    \/ \E h \in UvHandles : \E v \in Val : UpValue_new_closed(h, v)
    \/ \E h, c \in UvHandles : UpValue_clone(h, c)
    \/ \E h \in UvHandles : \E v \in Val : UpValue_close(h, v)
    \/ \E h \in UvHandles : UpValue_desc(h)
    \/ \E h \in UvHandles : UpValue_ref_sub_one(h)
    \/ \E h \in UvHandles : UpValue_mark_dirty(h)

SpecUpValue == InitUpValue /\ [][NextUpValue]_vars

\* ------------------------------------------------------------------------
\* PackageVal (SpecPkg); var_mapping is an Option: <<map>> is Some, <<>> None

MemberNames == {"a", "b"}

FnIndices == {0, 1}

PackageVal_inited(p) == p.var_mapping = <<>>

PackageVal_add_member(name, val) ==
    /\ fault = "none"
    /\ Len(pkg.members) < MaxMembers
    /\ pkg' = [pkg EXCEPT !.members = Append(@, val),
                          !.member_indices = HashMap_insert(@, name, Len(pkg.members))]
    /\ UNCHANGED <<coreVars, fault, notPkg>>

\* get_member_index(name).unwrap() and var_mapping.as_mut().unwrap()
PackageVal_add_var_mapping(name, fn_index) ==
    /\ fault = "none"
    /\ IF name \notin DOMAIN pkg.member_indices \/ pkg.var_mapping = <<>>
       THEN fault' = "panic" /\ pkg' = pkg
       ELSE /\ fault' = fault
            /\ pkg' = [pkg EXCEPT !.var_mapping =
                         <<HashMap_insert(@[1], fn_index, pkg.member_indices[name])>>]
    /\ UNCHANGED <<coreVars, notPkg>>

\* a write through var_mut: var_mapping.as_ref().unwrap()[&fn_member_index]
PackageVal_var_mut(fn_member_index, val) ==
    /\ fault = "none"
    /\ IF pkg.var_mapping = <<>> \/ fn_member_index \notin DOMAIN pkg.var_mapping[1]
       THEN fault' = "panic" /\ pkg' = pkg
       ELSE /\ fault' = fault
            /\ pkg' = [pkg EXCEPT !.members[pkg.var_mapping[1][fn_member_index] + 1] = val]
    /\ UNCHANGED <<coreVars, notPkg>>

PackageVal_var_count ==
    /\ fault = "none"
    /\ fault' = IF pkg.var_mapping = <<>> THEN "panic" ELSE fault
    /\ UNCHANGED <<coreVars, notPkg, pkg>>

\* set_inited that installs an empty mapping
PackageVal_SetInited_Resets(p) == [p EXCEPT !.var_mapping = <<[i \in {} |-> 0]>>]

\* self.var_mapping = None
PackageVal_SetInited(p) == [p EXCEPT !.var_mapping = <<>>]

PackageVal_set_inited ==
    /\ fault = "none"
    /\ pkg' = PackageVal_SetInited(pkg)
    /\ UNCHANGED <<coreVars, fault, notPkg>>

InitPkg ==
    /\ metas = Metadata_new
    /\ probe = NoProbe
    /\ desc = Untyped
    /\ fault = "none"
    /\ op = "init"
    /\ InitHeap
    /\ InitRest

NextPkg ==
    \/ \E name \in MemberNames : \E val \in Val : PackageVal_add_member(name, val)
    \/ \E name \in MemberNames : \E i \in FnIndices : PackageVal_add_var_mapping(name, i)
    \/ \E i \in FnIndices : \E val \in Val : PackageVal_var_mut(i, val)
    \/ PackageVal_var_count
    \/ PackageVal_set_inited

SpecPkg == InitPkg /\ [][NextPkg]_vars

\* ------------------------------------------------------------------------
\* FunctionVal: the code, the positions, the constant pool, the identifiers

\* push_inst_pos that leaves the position table as it is
push_inst_pos_NoPos(f, i, pos) == [f EXCEPT !.code = Append(@, i)]

\* FunctionVal::push_inst_pos
push_inst_pos(f, i, pos) == [f EXCEPT !.code = Append(@, i), !.pos = Append(@, pos)]

\* FunctionVal::emit_inst
emit_inst(f, o, t0, t1, t2, imm, pos) ==
    [f EXCEPT !.code = Append(@, Instruction_new(o, t0, t1, t2, imm)), !.pos = Append(@, pos)]

\* FunctionVal::emit_raw_inst
emit_raw_inst(f, u, pos) ==
    [f EXCEPT !.code = Append(@, Instruction_from_u64(u)), !.pos = Append(@, pos)]

\* FunctionVal::emit_code
emit_code(f, o, pos) == emit_inst(f, o, NoType, NoType, NoType, <<>>, pos)

\* FunctionVal::const_val, for an index the pool has
const_val(f, i) == f.consts[i + 1]

\* FunctionVal::entity_index: the binding of an identifier, or None
entity_index(f, entity) ==
    IF entity \in DOMAIN f.entities THEN f.entities[entity] ELSE NoEntIndex

\* HashMap::insert on entities followed by assert_eq!(old, None)
BindEntity(f, entity, index) ==
    [f EXCEPT !.entities = [k \in DOMAIN @ \cup {entity} |-> IF k = entity THEN index ELSE @[k]]]

\* the positions of the pool that hold a value identical to val
IdenticalAt(f, val) == {i \in 0..(Len(f.consts) - 1) : identical(val, f.consts[i + 1])}

\* get_const_index that never finds the constant
get_const_index_Miss(f, val) == NoEntIndex

\* FunctionVal::get_const_index: the first identical constant, or None
get_const_index(f, val) ==
    IF IdenticalAt(f, val) = {} THEN NoEntIndex
    ELSE Const(CHOOSE i \in IdenticalAt(f, val) : \A j \in IdenticalAt(f, val) : i <= j)

\* the outcome of a call on the function: its status, the function, the
\* patch pairs and the value returned
Emitted(status, f, ps, r) == [status |-> status, f |-> f, pairs |-> ps, ret |-> r]

\* FunctionVal::add_const
add_const(f, entity, cst) ==
    IF get_const_index(f, cst) # NoEntIndex
    THEN Emitted("ok", f, <<>>, get_const_index(f, cst))
    ELSE LET g == [f EXCEPT !.consts = Append(@, cst)]
             result == Len(g.consts) - 1
         IN  IF entity = None THEN Emitted("ok", g, <<>>, Const(result))
             ELSE IF entity \in DOMAIN g.entities THEN Emitted("panic", f, <<>>, NoEntIndex)
             ELSE Emitted("ok", BindEntity(g, entity, Const(result)), <<>>, Const(result))

\* add_local that rebinds an identifier already bound
add_local_Rebind(f, entity) ==
    LET result == f.local_alloc
        g == [f EXCEPT !.local_alloc = (@ + 1) % 65536]
    IN  IF entity = None THEN Emitted("ok", g, <<>>, LocalVar(result))
        ELSE Emitted("ok", BindEntity(g, entity, LocalVar(result)), <<>>, LocalVar(result))

\* FunctionVal::add_local; local_alloc is a u16
add_local(f, entity) ==
    LET result == f.local_alloc
        g == [f EXCEPT !.local_alloc = (@ + 1) % 65536]
    IN  IF entity = None THEN Emitted("ok", g, <<>>, LocalVar(result))
        ELSE IF entity \in DOMAIN f.entities THEN Emitted("panic", f, <<>>, NoEntIndex)
        ELSE Emitted("ok", BindEntity(g, entity, LocalVar(result)), <<>>, LocalVar(result))

\* ------------------------------------------------------------------------
\* Emitter

\* PkgVarPairs::add_pair
add_pair(ps, p, ident, fn, index, is_store) ==
    Append(ps, [pkg |-> p, ident |-> ident, func |-> fn, index |-> index,
                is_store |-> is_store])

\* the offset of the raw word in the place of that of the access instruction
PatchOffset_Last(f) == Len(f.code) - 1

\* self.f.code().len() - 2: the code offset a patch pair is registered with
PatchOffset(f) == Len(f.code) - 2

\* Emitter::emit_push_imm
emit_push_imm(f, typ, imm, pos) == emit_inst(f, "PUSH_IMM", typ, NoType, NoType, <<imm>>, pos)

\* the Const arm of emit_load: a bool and an Int that fits an OpIndex are
\* pushed by the instruction itself, every other constant by its pool index
emit_load_Const(f, i, typ, pos) ==
    LET c == const_val(f, i)
    IN  IF c.t = "Bool" /\ c.v = 1 THEN emit_code(f, "PUSH_TRUE", pos)
        ELSE IF c.t = "Bool" THEN emit_code(f, "PUSH_FALSE", pos)
        ELSE IF c.t = "Int" /\ FitsOpIndex(c) THEN emit_push_imm(f, typ, AsOpIndex(c), pos)
        ELSE emit_inst(f, "PUSH_CONST", typ, NoType, NoType, <<i>>, pos)

\* Emitter::emit_load; patch_info is None or the key of the function
emit_load(f, ps, index, patch_info, typ, pos) ==
    CASE index.kind = "Const" ->
           IF index.i >= Len(f.consts) THEN Emitted("panic", f, ps, NoEntIndex)
           ELSE Emitted("ok", emit_load_Const(f, index.i, typ, pos), ps, NoEntIndex)
      [] index.kind = "LocalVar" ->
           Emitted("ok", emit_inst(f, "LOAD_LOCAL", typ, NoType, NoType, <<index.i>>, pos),
                   ps, NoEntIndex)
      [] index.kind = "UpValue" ->
           Emitted("ok", emit_inst(f, "LOAD_UPVALUE", typ, NoType, NoType, <<index.i>>, pos),
                   ps, NoEntIndex)
      [] index.kind = "PackageMember" ->
           LET g == emit_raw_inst(emit_inst(f, "LOAD_PKG_FIELD", typ, NoType, NoType, <<0>>, pos),
                                  key_to_u64(index.i), pos)
           IN  IF patch_info = None THEN Emitted("panic", f, ps, NoEntIndex)
               ELSE Emitted("ok", g,
                            add_pair(ps, index.i, index.j, patch_info, PatchOffset(g), FALSE),
                            NoEntIndex)
      [] index.kind = "BuiltInVal" -> Emitted("ok", emit_code(f, index.op, pos), ps, NoEntIndex)
      [] index.kind = "BuiltInType" ->
           LET r == add_const(f, None, GosMetadataVal(index.i))
           IN  Emitted("ok", emit_load_Const(r.f, r.ret.i, "Metadata", pos), ps, NoEntIndex)
      [] OTHER -> Emitted("panic", f, ps, NoEntIndex)

\* Emitter::emit_cast
emit_cast(f, t0, t1, t2, rhs, m_index, pos) ==
    push_inst_pos(f, set_imm824(Instruction_new("CAST", t0, t1, t2, <<>>), rhs, m_index), pos)

\* IndexSelInfo::new; imm_index is <<>> for None and <<i>> for Some(i)
IndexSelInfo(index, imm_index, t1, t2, typ) ==
    [index |-> index, imm_index |-> imm_index, t1 |-> t1, t2 |-> t2, typ |-> typ]

NoInfo == IndexSelInfo(0, <<>>, NoType, NoType, "none")

\* LeftHandSide
Primitive(index) == [kind |-> "Primitive", index |-> index, info |-> NoInfo, i |-> 0]

IndexSelExpr(info) == [kind |-> "IndexSelExpr", index |-> NoEntIndex, info |-> info, i |-> 0]

Deref(i) == [kind |-> "Deref", index |-> NoEntIndex, info |-> NoInfo, i |-> i]

\* Option<(Opcode, Option<ValueType>)>: no operator, or an operator with the
\* type of the shift operand where it is a shift
NoOp == [code |-> "none", shift_t |-> NoType]

StoreOp(code, shift_t) == [code |-> code, shift_t |-> shift_t]

\* what the match on lhs of emit_store selects: the opcode, the 24-bit
\* immediate, two type tags and the small index; status "panic" for the arms
\* that are unreachable!() and for unwrap() of an absent imm_index
StoreArm(status, code, int32, t1, t2, int8) ==
    [status |-> status, code |-> code, int32 |-> int32, t1 |-> t1, t2 |-> t2, int8 |-> int8]

StorePanic == StoreArm("panic", "none", 0, NoType, NoType, <<>>)

StoreMatch(lhs) ==
    CASE lhs.kind = "Primitive" /\ lhs.index.kind = "LocalVar" ->
           StoreArm("ok", "STORE_LOCAL", lhs.index.i, NoType, NoType, <<>>)
      [] lhs.kind = "Primitive" /\ lhs.index.kind = "UpValue" ->
           StoreArm("ok", "STORE_UPVALUE", lhs.index.i, NoType, NoType, <<>>)
      [] lhs.kind = "Primitive" /\ lhs.index.kind = "PackageMember" ->
           StoreArm("ok", "STORE_PKG_FIELD", 0, "Package", NoType, <<>>)
      [] lhs.kind = "IndexSelExpr" /\ lhs.info.typ = "Indexing" /\ lhs.info.imm_index # <<>> ->
           StoreArm("ok", "STORE_INDEX_IMM", lhs.info.imm_index[1], lhs.info.t1, NoType,
                    <<lhs.info.index>>)
      [] lhs.kind = "IndexSelExpr" /\ lhs.info.typ = "Indexing" /\ lhs.info.imm_index = <<>> ->
           StoreArm("ok", "STORE_INDEX", lhs.info.index, lhs.info.t1, lhs.info.t2, <<>>)
      [] lhs.kind = "IndexSelExpr" /\ lhs.info.typ = "StructField" /\ lhs.info.imm_index # <<>> ->
           StoreArm("ok", "STORE_STRUCT_FIELD", lhs.info.imm_index[1], lhs.info.t1, NoType,
                    <<lhs.info.index>>)
      [] lhs.kind = "Deref" -> StoreArm("ok", "STORE_DEREF", lhs.i, NoType, NoType, <<>>)
      [] OTHER -> StorePanic

\* the early return left out
IsBlank_Never(lhs) == FALSE

\* the early return of emit_store: the left-hand side is the blank identifier
IsBlank(lhs) == lhs.kind = "Primitive" /\ lhs.index = Blank

\* Emitter::emit_store
emit_store(f, ps, lhs, rhs_index, o, patch_info, typ, pos) ==
    IF IsBlank(lhs) THEN Emitted("ok", f, ps, NoEntIndex)
    ELSE LET arm == StoreMatch(lhs)
             inst0 == Instruction_new(arm.code, typ, arm.t1, arm.t2, <<>>)
             inst1 == IF arm.int8 # <<>> THEN set_t2_with_index(inst0, arm.int8[1]) ELSE inst0
             f1 == IF o # NoOp /\ o.shift_t # NoType
                   THEN emit_cast(f, "Uint32", o.shift_t, NoType, -1, 0, pos)
                   ELSE f
             imm0 == IF o = NoOp THEN rhs_index ELSE code2index(o.code)
             f2 == push_inst_pos(f1, set_imm824(inst1, imm0, arm.int32), pos)
             f3 == emit_raw_inst(f2, key_to_u64(lhs.index.i), pos)
         IN  IF arm.status # "ok" THEN Emitted("panic", f, ps, NoEntIndex)
             ELSE IF ~(rhs_index = -1 \/ o = NoOp) THEN Emitted("panic", f, ps, NoEntIndex)
             ELSE IF arm.code # "STORE_PKG_FIELD" THEN Emitted("ok", f2, ps, NoEntIndex)
             ELSE IF patch_info = None THEN Emitted("panic", f, ps, NoEntIndex)
             ELSE Emitted("ok", f3,
                          add_pair(ps, lhs.index.i, lhs.index.j, patch_info, PatchOffset(f3), TRUE),
                          NoEntIndex)

\* FunctionVal::emit_code_with_flag_imm
emit_code_with_flag_imm(f, o, comma_ok, imm, pos) ==
    LET inst == Instruction_new(o, NoType, NoType, NoType, <<imm>>)
        flag == IF comma_ok THEN 1 ELSE 0
    IN  [f EXCEPT !.code = Append(@, set_t2_with_index(inst, flag)), !.pos = Append(@, pos)]

\* Emitter::emit_return; pkg_index is <<>> for None and <<i>> for Some(i)
emit_return(f, pkg_index, pos) ==
    LET inst_flag == CASE f.flag = "Default" -> "Zero"
                       [] f.flag = "PkgCtor" -> "FlagA"
                       [] OTHER -> "FlagB"
    IN  emit_inst(f, "RETURN", inst_flag, NoType, NoType, pkg_index, pos)

\* Emitter::emit_call
emit_call(f, style, pack, pos) ==
    LET style_flag == CASE style = "Default" -> "Zero"
                        [] style = "Async" -> "FlagA"
                        [] OTHER -> "FlagB"
        pack_flag == IF pack THEN "FlagA" ELSE NoType
    IN  emit_inst(f, "CALL", style_flag, pack_flag, NoType, <<>>, pos)

\* the four instructions of the constructor call that emit_import guards
ImportCall(p) ==
    << Instruction_new("LOAD_PKG_FIELD", "Int", NoType, NoType, <<0>>),
       Instruction_from_u64(key_to_u64(p)),
       Instruction_new("PRE_CALL", "Closure", NoType, NoType, <<>>),
       Instruction_new("CALL", NoType, NoType, NoType, <<>>) >>

RECURSIVE PushAll(_, _, _)

\* for i in cd.into_iter() { self.f.push_inst_pos(i, pos) }
PushAll(f, cd, pos) ==
    IF cd = <<>> THEN f ELSE PushAll(push_inst_pos(f, Head(cd), pos), Tail(cd), pos)

\* an offset that stops one instruction short of the end of the call
ImportOffset_Short(cd) == Len(cd) - 1

\* the offset of the jump: cd.len()
ImportOffset(cd) == Len(cd)

\* Emitter::emit_import
emit_import(f, index, p, pos) ==
    LET f1 == emit_inst(f, "IMPORT", NoType, NoType, NoType, <<index>>, pos)
        cd == ImportCall(p)
        f2 == emit_inst(f1, "JUMP_IF_NOT", NoType, NoType, NoType, <<ImportOffset(cd)>>, pos)
    IN  PushAll(f2, cd, pos)

\* ------------------------------------------------------------------------
\* The Emitter at work on one function (SpecConst, SpecStore)

ValueTypes == {"Int", "Str"}

\* the function the patch pairs are registered for, as FunctionKey
FunctionKeys == {1}

\* the package and the identifier of a package member
PackageKeys == {1}

IdentKeys == {1}

\* the EntIndex values a load is asked for
LoadIndices ==
    {Const(i) : i \in 0..MaxConsts} \cup
    {LocalVar(0), PackageMember(1, 1), BuiltInVal("PUSH_NIL"), BuiltInType(1), Blank}

\* the left-hand sides a store is asked for
LeftHandSides ==
    {Primitive(Blank), Primitive(LocalVar(0)), Primitive(PackageMember(1, 1)),
     Primitive(Const(0)), Deref(0),
     IndexSelExpr(IndexSelInfo(1, <<0>>, "Slice", NoType, "Indexing")),
     IndexSelExpr(IndexSelInfo(1, <<>>, "Slice", "Int", "Indexing")),
     IndexSelExpr(IndexSelInfo(1, <<0>>, "Struct", NoType, "StructField")),
     IndexSelExpr(IndexSelInfo(1, <<>>, "Struct", NoType, "StructField"))}

\* the operators of a compound assignment; the shifts carry an operand type
StoreOps == {NoOp, StoreOp("ADD", NoType), StoreOp("SHL", "Uint32")}

RhsIndices == {-1, -2}

\* a call on the Emitter takes effect, or fails fatally and leaves no trace
EmitterStep(r, call) ==
    /\ fault = "none"
    /\ IF r.status = "ok"
       THEN /\ fault' = fault
            /\ func' = r.f
            /\ pkg_pairs' = r.pairs
            /\ emitted' = call
       ELSE /\ fault' = "panic"
            /\ UNCHANGED emVars
    /\ UNCHANGED <<coreVars, notEm>>

Emitter_add_const(entity, cst) ==
    /\ Len(func.consts) < MaxConsts
    /\ LET r == add_const(func, entity, cst)
       IN  EmitterStep([r EXCEPT !.pairs = pkg_pairs],
                       [NoCall EXCEPT !.call = "add_const", !.entity = entity, !.cst = cst,
                                      !.ret = r.ret])

Emitter_emit_load(index, patch_info, typ, pos) ==
    /\ Len(func.code) < MaxCode
    /\ EmitterStep(emit_load(func, pkg_pairs, index, patch_info, typ, pos),
                   [NoCall EXCEPT !.call = "emit_load", !.index = index])

Emitter_emit_store(lhs, rhs_index, o, patch_info, typ, pos) ==
    /\ Len(func.code) < MaxCode
    /\ EmitterStep(emit_store(func, pkg_pairs, lhs, rhs_index, o, patch_info, typ, pos),
                   [NoCall EXCEPT !.call = "emit_store", !.index = lhs.index, !.lhs = lhs.kind,
                                  !.shift = (o.shift_t # NoType)])

Emitter_emit_cast(t0, t1, rhs, m_index, pos) ==
    /\ Len(func.code) < MaxCode
    /\ EmitterStep(Emitted("ok", emit_cast(func, t0, t1, NoType, rhs, m_index, pos), pkg_pairs,
                           NoEntIndex),
                   [NoCall EXCEPT !.call = "emit_cast"])

Emitter_emit_import(index, p, pos) ==
    /\ Len(func.code) < MaxCode * (Len(ImportCall(p)) + 2)
    /\ vm = NoFrame
    /\ EmitterStep(Emitted("ok", emit_import(func, index, p, pos), pkg_pairs, NoEntIndex),
                   [NoCall EXCEPT !.call = "emit_import"])

InitEmit ==
    /\ metas = Metadata_new
    /\ probe = NoProbe
    /\ desc = Untyped
    /\ fault = "none"
    /\ op = "init"
    /\ InitHeap
    /\ InitRest

\* constants are added to the pool and loaded
NextConst ==
    \/ \E entity \in {None} \cup EntityKeys : \E cst \in Literals : Emitter_add_const(entity, cst)
    \/ \E index \in LoadIndices : \E patch_info \in {None} \cup FunctionKeys :
         \E typ \in ValueTypes : \E pos \in Positions :
           Emitter_emit_load(index, patch_info, typ, pos)

SpecConst == InitEmit /\ [][NextConst]_vars

\* assignments are compiled: stores, and the casts of shift operands
NextStore ==
    \/ \E lhs \in LeftHandSides : \E rhs_index \in RhsIndices : \E o \in StoreOps :
         \E patch_info \in {None} \cup FunctionKeys : \E typ \in ValueTypes : \E pos \in Positions :
           Emitter_emit_store(lhs, rhs_index, o, patch_info, typ, pos)
    \/ \E t1 \in ValueTypes : \E pos \in Positions : Emitter_emit_cast("Uint32", t1, -1, 0, pos)

SpecStore == InitEmit /\ [][NextStore]_vars

\* the variables a load or a store names: a local and the members of two
\* packages
AccessIndices == {LocalVar(0), PackageMember(1, 1), PackageMember(2, 1)}

\* variables are read and assigned, also by compound assignments
NextAccess ==
    \/ \E index \in AccessIndices : \E patch_info \in {None} \cup FunctionKeys :
         \E typ \in ValueTypes : \E pos \in Positions :
           Emitter_emit_load(index, patch_info, typ, pos)
    \/ \E index \in AccessIndices : \E o \in StoreOps :
         \E patch_info \in {None} \cup FunctionKeys : \E typ \in ValueTypes : \E pos \in Positions :
           Emitter_emit_store(Primitive(index), -1, o, patch_info, typ, pos)

SpecAccess == InitEmit /\ [][NextAccess]_vars

\* ------------------------------------------------------------------------
\* StringObj, and the end bound of a re-slicing call (SpecString, SpecReslice)

\* StringObj::len
StringObj_len(s) == s.end - s.begin

\* StringObj::as_str: the bytes of the window
as_str(s) == SubSeq(s.data, s.begin + 1, s.end)

\* StringObj::slice
StringObj_slice(s, begin, end) ==
    LET self_end == StringObj_len(s) + 1
        bi == begin
        ei == RustRem(self_end + end, self_end)
    IN  StringObj(s.data, bi, ei)

\* the strings a program builds
Strings == {[i \in 1..n |-> i] : n \in 0..MaxStrLen}

StringStep(obj, call) ==
    /\ fault = "none"
    /\ fault' = fault
    /\ str' = [obj |-> obj, call |-> call]
    /\ UNCHANGED <<coreVars, grow, ret, uvVars, pkg, emVars, ptVars, vm>>

StringObj_with_str(s) ==
    /\ s \in Strings
    /\ StringStep(with_str(s), NoReslice)

\* s[begin:end] on the string held, with bounds inside the visible content;
\* end is -1 where the expression omits it
StringObj_slice_call(begin, end) ==
    /\ begin \in 0..StringObj_len(str.obj)
    /\ end \in {-1} \cup (begin..StringObj_len(str.obj))
    /\ LET out == StringObj_slice(str.obj, begin, end)
       IN  StringStep(out,
                      [fn |-> "StringObj::slice",
                       recv |-> Window(str.obj.begin, str.obj.end, Len(str.obj.data)),
                       b |-> begin, e |-> end,
                       out |-> Window(out.begin, out.end, Len(out.data)), status |-> "ok"])

NextString ==
    \/ \E s \in Strings : StringObj_with_str(s)
    \/ \E begin \in 0..MaxStrLen : \E end \in -1..MaxStrLen : StringObj_slice_call(begin, end)

SpecString == InitEmit /\ [][NextString]_vars

\* the end bounds a re-slicing call is given on a window of length len: from
\* below -(len + 1) to above len
EndBounds(len) == (-(len + 1) - MaxBeyond)..(len + MaxBeyond)

\* the windows a string has after with_str and re-slicing inside the content
StringWindows ==
    {w \in {StringObj(s, b, e) : s \in Strings, b \in 0..MaxStrLen, e \in 0..MaxStrLen} :
        w.begin <= w.end /\ w.end <= Len(w.data)}

\* the windows of the slices on a buffer of at most MaxLen elements
SliceWindows ==
    {w \in {SliceObj(SliceMeta, b, e, m, 1) : b \in 0..MaxLen, e \in 0..MaxLen, m \in 0..MaxLen} :
        w.begin <= w.end /\ w.end <= w.soft_cap}

\* the sum of the usize a and the usize that (b as usize) is, for an isize b,
\* exceeds usize::MAX
AddOverflows(a, b) == b < 0 /\ a + b >= 0

\* a re-slicing call returned, or failed on an arithmetic overflow; the
\* string held stays
ResliceStep(fn, recv, b, e, out, overflow, checks) ==
    /\ fault = "none"
    /\ IF overflow /\ checks
       THEN /\ fault' = "panic"
            /\ str' = [str EXCEPT !.call = [fn |-> fn, recv |-> recv, b |-> b, e |-> e,
                                            out |-> recv, status |-> "panic"]]
       ELSE /\ fault' = fault
            /\ str' = [str EXCEPT !.call = [fn |-> fn, recv |-> recv, b |-> b, e |-> e,
                                            out |-> out, status |-> "ok"]]
    /\ UNCHANGED <<coreVars, grow, ret, uvVars, pkg, emVars, ptVars, vm>>

\* StringObj::slice on the window s
Reslice_string(s, begin, end) ==
    /\ s \in StringWindows
    /\ LET out == StringObj_slice(s, begin, end)
       IN  ResliceStep("StringObj::slice", Window(s.begin, s.end, Len(s.data)), begin, end,
                       Window(out.begin, out.end, Len(out.data)), FALSE, FALSE)

\* SliceObj::slice on the window s, max omitted; checks: the build has
\* overflow checks (self.begin() + ei panics on overflow, or wraps)
Reslice_slice(s, begin, end, checks) ==
    /\ s \in SliceWindows
    /\ LET out == slice(s, begin, end, -1)
           ei == RustRem(SliceObj_len(s) + 1 + end, SliceObj_len(s) + 1)
       IN  ResliceStep("SliceObj::slice", Window(s.begin, s.end, s.soft_cap), begin, end,
                       Window(out.begin, out.end, out.soft_cap), AddOverflows(s.begin, ei),
                       checks)

\* SliceObj::with_array on an array of len elements
Reslice_array(len, begin, end) ==
    /\ len \in 1..MaxLen
    /\ LET out == with_array(ArrayObj(ArrayMeta, 1), begin, end, <<Vec([i \in 1..len |-> 0])>>)
       IN  ResliceStep("SliceObj::with_array", Window(0, len, len), begin, end,
                       Window(out.begin, out.end, out.soft_cap), FALSE, FALSE)

NextReslice ==
    \/ \E s \in StringWindows : \E begin \in 0..StringObj_len(s) :
         \E end \in EndBounds(StringObj_len(s)) : Reslice_string(s, begin, end)
    \/ \E s \in SliceWindows : \E begin \in 0..SliceObj_len(s) :
         \E end \in EndBounds(SliceObj_len(s)) : \E checks \in BOOLEAN :
           Reslice_slice(s, begin, end, checks)
    \/ \E len \in 1..MaxLen : \E begin \in 0..len : \E end \in EndBounds(len) :
         Reslice_array(len, begin, end)

SpecReslice == InitEmit /\ [][NextReslice]_vars

\* ------------------------------------------------------------------------
\* Every way to emit an instruction (SpecEmit)

\* a call that emits and cannot fail
EmitCall(f, name) ==
    EmitterStep(Emitted("ok", f, pkg_pairs, NoEntIndex), [NoCall EXCEPT !.call = name])

FunctionVal_emit_inst(o, t0, imm, pos) ==
    /\ Len(func.code) < MaxCode
    /\ EmitCall(emit_inst(func, o, t0, NoType, NoType, imm, pos), "emit_inst")

FunctionVal_emit_raw_inst(u, pos) ==
    /\ Len(func.code) < MaxCode
    /\ EmitCall(emit_raw_inst(func, u, pos), "emit_raw_inst")

FunctionVal_push_inst_pos(i, pos) ==
    /\ Len(func.code) < MaxCode
    /\ EmitCall(push_inst_pos(func, i, pos), "push_inst_pos")

FunctionVal_emit_code_with_flag_imm(o, comma_ok, imm, pos) ==
    /\ Len(func.code) < MaxCode
    /\ EmitCall(emit_code_with_flag_imm(func, o, comma_ok, imm, pos), "emit_code_with_flag_imm")

Emitter_emit_call(style, pack, pos) ==
    /\ Len(func.code) < MaxCode
    /\ EmitCall(emit_call(func, style, pack, pos), "emit_call")

Emitter_emit_return(pkg_index, pos) ==
    /\ Len(func.code) < MaxCode
    /\ EmitCall(emit_return(func, pkg_index, pos), "emit_return")

NextEmit ==
    \/ \E imm \in {<<>>, <<1>>} : \E pos \in Positions :
         FunctionVal_emit_inst("POP", NoType, imm, pos)
    \/ \E pos \in Positions : FunctionVal_emit_raw_inst(1, pos)
    \/ \E pos \in Positions :
         FunctionVal_push_inst_pos(Instruction_new("PRE_CALL", NoType, NoType, NoType, <<>>), pos)
    \/ \E comma_ok \in BOOLEAN : \E pos \in Positions :
         FunctionVal_emit_code_with_flag_imm("TYPE_ASSERT", comma_ok, 0, pos)
    \/ \E index \in {LocalVar(0), PackageMember(1, 1), Blank} : \E pos \in Positions :
         Emitter_emit_load(index, 1, "Int", pos)
    \/ \E index \in {LocalVar(0), PackageMember(1, 1), Blank} :
         \E o \in {NoOp, StoreOp("SHL", "Uint32")} : \E pos \in Positions :
           Emitter_emit_store(Primitive(index), -1, o, 1, "Int", pos)
    \/ \E pos \in Positions : Emitter_emit_import(0, 1, pos)
    \/ \E pos \in Positions : Emitter_emit_cast("Uint32", "Int", -1, 0, pos)
    \/ \E style \in {"Default", "Defer"} : \E pos \in Positions :
         Emitter_emit_call(style, FALSE, pos)
    \/ \E pkg_index \in {<<>>, <<0>>} : \E pos \in Positions :
         Emitter_emit_return(pkg_index, pos)

SpecEmit == InitEmit /\ [][NextEmit]_vars

\* FunctionVal::add_local, as Emitter::add_params calls it for each parameter
Emitter_add_local(entity) ==
    /\ func.local_alloc < MaxLocals
    /\ LET r == add_local(func, entity)
       IN  EmitterStep([r EXCEPT !.pairs = pkg_pairs],
                       [NoCall EXCEPT !.call = "add_local", !.entity = entity, !.ret = r.ret])

\* locals and constants are declared, with or without an identifier
NextLocal ==
    \/ \E entity \in {None} \cup 1..MaxEntities : Emitter_add_local(entity)
    \/ \E entity \in {None} \cup 1..MaxEntities : \E cst \in Literals :
         Emitter_add_const(entity, cst)

SpecLocal == InitEmit /\ [][NextLocal]_vars

\* ------------------------------------------------------------------------
\* The dispatch loop on the code of emit_import (SpecImport)

\* the frame is at an instruction of the function
Running == vm.pc \in 1..Len(func.code)

\* a frame is created for the function, at its first instruction
VM_run ==
    /\ fault = "none"
    /\ func.code # <<>>
    /\ ~Running
    /\ vm.runs < MaxRuns
    /\ vm' = [vm EXCEPT !.pc = 1, !.stack = <<>>, !.runs = @ + 1]
    /\ UNCHANGED <<coreVars, fault, grow, ret, uvVars, pkg, emVars, ptVars, str>>

\* IMPORT pushes whether the package still has to be initialized
VM_IMPORT ==
    /\ vm' = [vm EXCEPT !.pc = @ + 1,
                        !.stack = Append(@, IF PackageVal_inited(pkg) THEN 0 ELSE 1)]
    /\ UNCHANGED <<pkg, fault>>

\* JUMP_IF_NOT pops a bool and skips imm instructions where it is false
VM_JUMP_IF_NOT(inst) ==
    /\ vm' = [vm EXCEPT !.pc = IF vm.stack[Len(vm.stack)] = 0 THEN @ + 1 + inst.imm[1]
                                ELSE @ + 1,
                        !.stack = SubSeq(@, 1, Len(@) - 1)]
    /\ UNCHANGED <<pkg, fault>>

\* LOAD_PKG_FIELD reads the raw word that follows it and pushes the member
VM_LOAD_PKG_FIELD ==
    /\ vm' = [vm EXCEPT !.pc = @ + 2, !.stack = Append(@, 2)]
    /\ UNCHANGED <<pkg, fault>>

VM_PRE_CALL ==
    /\ vm' = [vm EXCEPT !.pc = @ + 1]
    /\ UNCHANGED <<pkg, fault>>

\* CALL runs the body of the package constructor, which returns with set_inited
VM_CALL ==
    /\ vm' = [vm EXCEPT !.pc = @ + 1, !.stack = <<>>, !.calls = @ + 1]
    /\ pkg' = PackageVal_SetInited(pkg)
    /\ UNCHANGED fault

\* a raw word is not an instruction
VM_RAW ==
    /\ fault' = "panic"
    /\ UNCHANGED <<vm, pkg>>

\* the dispatch loop executes the instruction at pc
VM_step ==
    /\ fault = "none"
    /\ Running
    /\ LET inst == func.code[vm.pc]
       IN  CASE inst.op = "IMPORT" -> VM_IMPORT
             [] inst.op = "JUMP_IF_NOT" -> VM_JUMP_IF_NOT(inst)
             [] inst.op = "LOAD_PKG_FIELD" -> VM_LOAD_PKG_FIELD
             [] inst.op = "PRE_CALL" -> VM_PRE_CALL
             [] inst.op = "CALL" -> VM_CALL
             [] OTHER -> VM_RAW
    /\ UNCHANGED <<coreVars, grow, ret, uvVars, emVars, ptVars, str>>

NextImport ==
    \/ \E index \in {0, 1} : \E p \in PackageKeys : \E pos \in Positions :
         Emitter_emit_import(index, p, pos)
    \/ VM_run
    \/ VM_step

SpecImport == InitEmit /\ [][NextImport]_vars

\* ------------------------------------------------------------------------
\* zero_val and default_val: the value a descriptor materializes

\* a GosValue as far as its shape goes: its variant, whether a slice or a map
\* has no backing store, the length and the capacity of a slice or an array,
\* and the value a Named wraps (a sequence of length 0 or 1)
Value(kind, nil, len, cap, val) ==
    [kind |-> kind, nil |-> nil, len |-> len, cap |-> cap, val |-> val]

\* GosValue::Nil(meta)
NilValue == Value("Nil", TRUE, 0, 0, <<>>)

\* unreachable!()
PanicValue == Value("panic", FALSE, 0, 0, <<>>)

\* GosValue::new_slice_nil: SliceObj::new_nil
new_slice_nil == Value("Slice", TRUE, 0, 0, <<>>)

\* GosValue::new_slice(len, cap, ..): SliceObj::new, with a Vec of its own
new_slice_val(len, cap) == Value("Slice", FALSE, len, cap, <<>>)

\* GosValue::Named(Box::new((val, gm)))
NamedValue(val) == Value("Named", FALSE, 0, 0, <<val>>)

\* the arms that zero_val_impl and default_val share: every definition that
\* is not a slice, a map or a named type
SharedArm(d, m) ==
    LET t == m[d.k]
    IN  CASE t.kind = "SliceOrArray" /\ d.c = "Array" -> Value("Array", FALSE, t.size, t.size, <<>>)
          [] t.kind = "SliceOrArray" -> PanicValue
          [] t.kind = "Struct" -> Value("Struct", FALSE, Len(t.fields), 0, <<>>)
          [] t.kind \in {"Signature", "Interface", "Channel"} -> NilValue
          [] t.kind = "Str" -> Value("Str", FALSE, 0, 0, <<>>)
          [] OTHER -> Value(t.kind, FALSE, 0, 0, <<>>)

RECURSIVE default_val(_, _)

\* GosMetadata::default_val
default_val(d, m) ==
    IF d.tag # "NonPtr" THEN PanicValue
    ELSE LET t == m[d.k]
         IN  CASE t.kind = "SliceOrArray" /\ d.c = "Default" -> new_slice_val(0, 0)
               [] t.kind = "Map" -> Value("Map", FALSE, 0, 0, <<>>)
               [] t.kind = "Named" -> NamedValue(default_val(t.a, m))
               [] OTHER -> SharedArm(d, m)

\* GosMetadata::zero_val_impl
zero_val_impl(d, m) ==
    IF d.tag # "NonPtr" THEN NilValue
    ELSE LET t == m[d.k]
         IN  CASE t.kind = "SliceOrArray" /\ d.c = "Default" -> new_slice_nil
               [] t.kind = "Map" -> Value("Map", TRUE, 0, 0, <<>>)
               [] t.kind = "Named" -> NamedValue(default_val(t.a, m))
               [] OTHER -> SharedArm(d, m)

\* GosMetadata::zero_val
zero_val(d, m) == zero_val_impl(d, m)

\* ------------------------------------------------------------------------
\* PointerObj (SpecPointer)

OwningKinds == {"Struct", "Array", "Slice", "Map"}

MemberKinds == {"SliceMember", "StructField"}

\* Rc<(pointee, RCount)>: the fields of a struct or the elements of an array
\* as val, and the count cell
RcAlloc(kind, val, rc) == [kind |-> kind, val |-> val, rc |-> rc]

\* the contents an allocation is created with
Contents(kind) == IF kind \in {"Struct", "Array"} THEN {<<0>>, <<1>>, <<0, 0>>} ELSE {<<>>}

\* StructObj::eq: the fields of self in order, each against the field of
\* other at the same index; other.fields[i] fails past the end of other
StructObj_eq(x, y) ==
    LET stops == {i \in 1..Len(x) : i > Len(y) \/ x[i] # y[i]}
        first == CHOOSE i \in stops : \A j \in stops : i <= j
    IN  IF stops = {} THEN "true" ELSE IF first > Len(y) THEN "panic" ELSE "false"

\* ArrayObj::eq: the lengths, then the elements
ArrayObj_eq(x, y) == IF Len(x) = Len(y) /\ x = y THEN "true" ELSE "false"

\* the PartialEq of the pointee: SliceObj::eq and MapObj::eq are unreachable!()
Pointee_eq(a, b) ==
    CASE a.kind = "Struct" -> StructObj_eq(a.val, b.val)
      [] a.kind = "Array" -> ArrayObj_eq(a.val, b.val)
      [] OTHER -> "panic"

\* the PartialEq of the tuple (pointee, RCount): the pointees, then the counts
Tuple_eq(a, b) ==
    IF Pointee_eq(a, b) # "true" THEN Pointee_eq(a, b)
    ELSE IF a.rc = b.rc THEN "true" ELSE "false"

\* Rc<T> == Rc<T> for T: Eq: the same allocation, or equal contents
Rc_eq(x, y, rs) == IF x = y THEN "true" ELSE Tuple_eq(rs[x], rs[y])

\* Rc::ptr_eq
Rc_ptr_eq(x, y) == x = y

\* impl PartialEq for PointerObj
PointerObj_eq(p, q, rs) ==
    CASE p.kind \in OwningKinds /\ q.kind = p.kind -> Rc_eq(p.rc, q.rc, rs)
      [] p.kind \in MemberKinds /\ q.kind = p.kind ->
           IF Rc_ptr_eq(p.rc, q.rc) /\ p.index = q.index THEN "true" ELSE "false"
      [] p.kind = "PkgMember" /\ q.kind = "PkgMember" ->
           IF p.rc = q.rc /\ p.index = q.index THEN "true" ELSE "false"
      [] OTHER -> "false"

\* a pointer operation takes effect on the allocations and the pointers
PtrStep(rs, ps, c) ==
    /\ fault = "none"
    /\ fault' = fault
    /\ rcs' = rs
    /\ ptrs' = ps
    /\ cmp' = c
    /\ UNCHANGED <<coreVars, notPt>>

\* a pointer operation fails fatally
PtrPanic ==
    /\ fault = "none"
    /\ fault' = "panic"
    /\ UNCHANGED <<coreVars, restVars>>

\* a struct, an array, a slice or a map value is created: a new allocation
\* with a count cell of 0
GosValue_new(kind, val) ==
    /\ Len(rcs) < MaxRcs
    /\ PtrStep(Append(rcs, RcAlloc(kind, val, 0)), ptrs, NoCmp)

\* PointerObj::new_local of the value that holds allocation a
PointerObj_new_local(h, a) ==
    PtrStep(rcs, [ptrs EXCEPT ![h] = PointerObj(rcs[a].kind, a, 0)], NoCmp)

\* PointerObj::SliceMember(s, index) and PointerObj::StructField(s, index)
PointerObj_member(h, a, index) ==
    /\ rcs[a].kind \in {"Slice", "Struct"}
    /\ PtrStep(rcs,
               [ptrs EXCEPT ![h] = PointerObj(IF rcs[a].kind = "Slice" THEN "SliceMember"
                                              ELSE "StructField", a, index)],
               NoCmp)

\* PointerObj::Released and PointerObj::PkgMember(pkg, index)
PointerObj_other(h, p) == PtrStep(rcs, [ptrs EXCEPT ![h] = p], NoCmp)

\* #[derive(Clone)]: the clone holds the allocation of the original
PointerObj_clone(h, c) ==
    /\ ptrs[h] # NoPtr
    /\ PtrStep(rcs, [ptrs EXCEPT ![c] = ptrs[h]], NoCmp)

\* PointerObj::deep_clone
PointerObj_deep_clone(h, c) ==
    /\ ptrs[h] # NoPtr
    /\ Len(rcs) < MaxRcs
    /\ CASE ptrs[h].kind = "Released" -> PtrStep(rcs, [ptrs EXCEPT ![c] = Released], NoCmp)
         [] ptrs[h].kind \in {"Struct", "Slice", "Map"} ->
              PtrStep(Append(rcs, RcAlloc(ptrs[h].kind, rcs[ptrs[h].rc].val, 0)),
                      [ptrs EXCEPT ![c] = PointerObj(ptrs[h].kind, Len(rcs) + 1, 0)], NoCmp)
         [] OTHER -> PtrPanic

\* PointerObj::set_local_ref_type
PointerObj_set_local_ref_type(h, val) ==
    /\ ptrs[h] # NoPtr
    /\ IF ptrs[h].kind = "Struct"
       THEN PtrStep([rcs EXCEPT ![ptrs[h].rc].val = val], ptrs, NoCmp)
       ELSE PtrPanic

\* PointerObj::ref_sub_one
PointerObj_ref_sub_one(h) ==
    /\ ptrs[h] # NoPtr
    /\ IF ptrs[h].kind \in {"Struct", "Slice", "Map", "SliceMember", "StructField"}
       THEN /\ rcs[ptrs[h].rc].rc > -MaxDrops
            /\ PtrStep([rcs EXCEPT ![ptrs[h].rc].rc = @ - 1], ptrs, SubOne(ptrs[h]))
       ELSE PtrStep(rcs, ptrs, SubOne(ptrs[h]))

\* a == b on two pointers
PointerObj_eq_call(h, g) ==
    /\ ptrs[h] # NoPtr
    /\ ptrs[g] # NoPtr
    /\ LET r == PointerObj_eq(ptrs[h], ptrs[g], rcs)
       IN  IF r = "panic"
           THEN /\ fault = "none"
                /\ fault' = "panic"
                /\ cmp' = [a |-> ptrs[h], b |-> ptrs[g], result |-> r]
                /\ UNCHANGED <<coreVars, notPt, rcs, ptrs>>
           ELSE PtrStep(rcs, ptrs, [a |-> ptrs[h], b |-> ptrs[g], result |-> r])

NextPointer ==
    \/ \E kind \in OwningKinds : \E val \in Contents(kind) : GosValue_new(kind, val)
    \/ \E h \in PtrIds : \E a \in 1..Len(rcs) : PointerObj_new_local(h, a)
    \/ \E h \in PtrIds : \E a \in 1..Len(rcs) : \E index \in {0, 1} : PointerObj_member(h, a, index)
    \/ \E h \in PtrIds : \E p \in {Released, PkgMember(1, 0), PkgMember(1, 1)} :
         PointerObj_other(h, p)
    \/ \E h, c \in PtrIds : PointerObj_clone(h, c)
    \/ \E h, c \in PtrIds : PointerObj_deep_clone(h, c)
    \/ \E h \in PtrIds : \E val \in Contents("Struct") : PointerObj_set_local_ref_type(h, val)
    \/ \E h \in PtrIds : PointerObj_ref_sub_one(h)
    \/ \E h, g \in PtrIds : PointerObj_eq_call(h, g)

SpecPointer == InitEmit /\ [][NextPointer]_vars


\* ------------------------------------------------------------------------
\* Properties of semantic_eq (SpecMeta)

\* the descriptor with a variant tag, a handle and a category
Mk(tag, k, c) == IF tag = "Untyped" THEN Untyped ELSE GosMetadata(tag, k, c)

Handles == 1..Len(metas)

\* C1: semantic_eq is symmetric: for every pair of descriptors a and b over
\* the arena, a.semantic_eq(b) and b.semantic_eq(a) give the same answer.
C1_Symmetric ==
    op = "semantic_eq" =>
        \A bk \in Handles : \A ta, tb \in AllTags : \A ca, cb \in MetaCategory :
            GosMetadata_semantic_eq(Mk(ta, probe, ca), Mk(tb, bk, cb), metas)
              = GosMetadata_semantic_eq(Mk(tb, bk, cb), Mk(ta, probe, ca), metas)

\* C2: semantic_eq is reflexive: d.semantic_eq(d) is true for Untyped and for
\* the descriptor of every depth 0..7 and every category over any definition.
C2_Reflexive ==
    probe # NoProbe =>
        \A t \in AllTags : \A c \in MetaCategory :
            GosMetadata_semantic_eq(Mk(t, probe, c), Mk(t, probe, c), metas) = "true"

\* a definition whose structural comparison with itself would not say true
\* has been compared with itself
C2_Witness ==
    /\ probe # NoProbe
    /\ metas[probe].kind = "Signature"
    /\ Len(metas[probe].sig.results) # Len(metas[probe].sig.params)
    /\ GosMetadata_semantic_eq(NonPtr(probe, "Default"), NonPtr(probe, "Default"),
                               metas) = "true"

\* the field lists of two struct definitions agree in length and pairwise
SameFields(ak, bk) ==
    /\ metas[ak].kind = "Struct"
    /\ metas[bk].kind = "Struct"
    /\ Len(metas[ak].fields) = Len(metas[bk].fields)
    /\ \A i \in 1..Len(metas[ak].fields) :
          GosMetadata_semantic_eq(metas[ak].fields[i], metas[bk].fields[i], metas)
            = "true"

\* C3: two struct descriptors built independently by new_struct (different
\* handles) with field lists of the same length and pairwise semantically
\* equal field types in the same order are semantically equal.
C3_StructsEqual ==
    probe # NoProbe =>
        \A bk \in Handles :
            (bk # probe /\ SameFields(probe, bk)) =>
                GosMetadata_semantic_eq(NonPtr(probe, "Default"),
                                        NonPtr(bk, "Default"), metas) = "true"

C3_Witness ==
    /\ probe # NoProbe
    /\ \E bk \in Handles :
          /\ bk # probe
          /\ SameFields(probe, bk)
          /\ Len(metas[bk].fields) > 0
          /\ GosMetadata_semantic_eq(NonPtr(probe, "Default"),
                                     NonPtr(bk, "Default"), metas) = "true"

\* The relation C4 describes: same depth, same category, and the same handle
\* or definitions of the same variant whose components match pairwise.
RECURSIVE DescMatch(_, _, _)

SeqMatch(xs, ys, m) ==
    /\ Len(xs) = Len(ys)
    /\ \A i \in 1..Len(xs) : DescMatch(xs[i], ys[i], m)

DefMatch(x, y, mc, m) ==
    /\ x.kind = y.kind
    /\ CASE x.kind \in Primitives -> TRUE
         [] x.kind \in {"Struct", "Interface"} -> SeqMatch(x.fields, y.fields, m)
         [] x.kind = "Signature" ->
              /\ SeqMatch(x.sig.recv, y.sig.recv, m)
              /\ SeqMatch(x.sig.params, y.sig.params, m)
              /\ SeqMatch(x.sig.results, y.sig.results, m)
              /\ SeqMatch(x.sig.variadic, y.sig.variadic, m)
         [] x.kind = "SliceOrArray" ->
              /\ (mc \in {"Array", "ArrayType"} => x.size = y.size)
              /\ DescMatch(x.a, y.a, m)
         [] x.kind = "Map" -> DescMatch(x.a, y.a, m) /\ DescMatch(x.b, y.b, m)
         [] x.kind = "Channel" -> x.chan = y.chan /\ DescMatch(x.a, y.a, m)
         [] x.kind = "Named" -> DescMatch(x.a, y.a, m)
         [] OTHER -> FALSE

DescMatch(a, b, m) ==
    /\ a.tag = b.tag
    /\ a.c = b.c
    /\ (a.k = b.k \/ DefMatch(m[a.k], m[b.k], a.c, m))

TypedTags == AllTags \ {"Untyped"}

\* C4: semantic_eq returns a boolean that is true if and only if the two
\* descriptors have the same depth, the same category and the same handle or
\* recursively matching definitions, for every definition variant.
C4_TrueIffMatch ==
    op = "semantic_eq" =>
        \A bk \in Handles : \A ta, tb \in TypedTags : \A ca, cb \in MetaCategory :
            LET a == Mk(ta, probe, ca)
                b == Mk(tb, bk, cb)
                r == GosMetadata_semantic_eq(a, b, metas)
            IN  /\ r \in {"true", "false"}
                /\ (r = "true") <=> DescMatch(a, b, metas)

\* ------------------------------------------------------------------------
\* Properties of ptr_to / unptr_to (SpecPtr)

\* C5: raising then lowering indirection is the identity for every
\* descriptor of depth 0..6, and ptr_to changes only the depth, by +1.
C5_RaiseLowerIdentity ==
    (fault = "none" /\ desc.tag \in TypedTags /\ desc.tag # "Ptr7") =>
        /\ unptr_to(ptr_to(desc)) = desc
        /\ ptr_to(desc).k = desc.k
        /\ ptr_to(desc).c = desc.c
        /\ Depth(ptr_to(desc)) = Depth(desc) + 1

\* a descriptor of a type category has been raised to depth 6
C5_Witness ==
    /\ op = "ptr_to"
    /\ fault = "none"
    /\ desc.tag = "Ptr6"
    /\ desc.c = "Type"

\* C6: the depth never leaves 0..7: ptr_to at depth 7 and unptr_to at depth 0
\* fail fatally and return no descriptor.
C6_DepthStaysInRange ==
    [][ /\ (op' = "ptr_to" /\ desc.tag = "Ptr7") => (fault' = "panic" /\ desc' = desc)
        /\ (op' = "unptr_to" /\ desc.tag = "NonPtr") =>
               (fault' = "panic" /\ desc' = desc)
        /\ desc' # Untyped => (desc'.tag \in TypedTags /\ Depth(desc') \in 0..7)
      ]_vars

\* ptr_to was called on a depth-7 descriptor and failed
C6_Witness ==
    /\ op = "ptr_to"
    /\ fault = "panic"
    /\ desc.tag = "Ptr7"

\* ------------------------------------------------------------------------
\* Properties of the objects (SpecObj)

\* what the program can read through an object: lengths and every element
View(x, vs, hs) ==
    CASE x.kind = "slice" ->
           [len |-> SliceObj_len(x), cap |-> SliceObj_cap(x),
            elems |-> IF x.vec = None THEN <<>>
                      ELSE [i \in 1..SliceObj_len(x) |-> SliceObj_get(x, i - 1, vs)]]
      [] x.kind = "array" -> [len |-> Len(vs[x.vec].data), elems |-> vs[x.vec].data]
      [] x.kind = "map" ->
           IF x.map = None THEN [len |-> 0, default_val |-> x.default_val]
           ELSE [len |-> Cardinality(DOMAIN hs[x.map].data),
                 default_val |-> x.default_val, elems |-> hs[x.map].data]
      [] x.kind = "struct" -> [len |-> Len(x.fields), elems |-> x.fields]
      [] OTHER -> [len |-> 0]

\* the step is a mutation applied through the variable x
Mutates(x) ==
    \/ \E v \in Val : SliceObj_push(x, v)
    \/ \E vals \in {<<>>, <<1>>, <<1, 0>>} : SliceObj_append(x, vals)
    \/ \E i \in 0..(MaxVecLen - 1) : \E v \in Val : SliceObj_set(x, i, v)
    \/ \E i \in 0..(MaxVecLen - 1) : \E v \in Val : ArrayObj_borrow_data_mut(x, i, v)
    \/ \E k \in Keys : \E v \in Val : MapObj_insert(x, k, v)
    \/ \E k \in Keys : MapObj_touch_key(x, k)
    \/ \E i \in 0..MaxLen : \E v \in Val : StructObj_set_field(x, i, v)

\* C7: while c is the deep clone of o, a mutation applied to c (element set,
\* push, append, map insert, touch_key, field write) leaves the length and
\* every element of o as they were, and a mutation applied to o leaves c
C7_DeepCloneIndependent ==
    [][\A pr \in deepOf :
         /\ Mutates(pr[2]) => View(objs[pr[1]], vecs, hmaps)' = View(objs[pr[1]], vecs, hmaps)
         /\ Mutates(pr[1]) => View(objs[pr[2]], vecs, hmaps)' = View(objs[pr[2]], vecs, hmaps)]_vars

\* a slice and its deep clone that read different values at index 0, which
\* only a write to one of them after the clone was taken brings about
C7_Witness ==
    \E pr \in deepOf :
        /\ objs[pr[1]].kind = "slice" /\ objs[pr[1]].vec # None
        /\ SliceObj_len(objs[pr[1]]) > 0
        /\ SliceObj_get(objs[pr[1]], 0, vecs) # <<>>
        /\ SliceObj_get(objs[pr[2]], 0, vecs) # <<>>
        /\ SliceObj_get(objs[pr[1]], 0, vecs) # SliceObj_get(objs[pr[2]], 0, vecs)

\* the shallow pairs in both directions
Shared == sharing \cup {<<pr[2], pr[1]>> : pr \in sharing}

C9_FullResliceSame ==
    [][\A o, d \in ObjIds :
         (SliceObj_slice(o, d, 0, -1, -1) /\ objs[o].vec # None)
         => /\ objs'[d].kind = "slice"
            /\ objs'[d].begin = objs[o].begin
            /\ objs'[d].end = objs[o].end
            /\ objs'[d].soft_cap = objs[o].soft_cap
            /\ SliceObj_len(objs'[d]) = SliceObj_len(objs[o])
            /\ SliceObj_cap(objs'[d]) = SliceObj_cap(objs[o])
            /\ objs'[d].vec # None
            /\ vecs'[objs'[d].vec] = vecs[objs[o].vec]
            /\ d # o => /\ objs'[o].vec = objs'[d].vec
                        /\ [objs'[o] EXCEPT !.vec = None] = [objs[o] EXCEPT !.vec = None]]_vars

\* two slices, neither a clone of the other, with one non-empty window that
\* starts after the start of one buffer
C9_Witness ==
    /\ objs[1].kind = "slice" /\ objs[2].kind = "slice"
    /\ objs[1].vec # None
    /\ objs[1] = objs[2]
    /\ objs[1].begin > 0
    /\ SliceObj_len(objs[1]) > 0
    /\ sharing = {}
    /\ deepOf = {}

\* C10: a push onto a slice of length and capacity L completes; afterwards
\* the slice has length L + 1, its first L elements are the former ones, its
\* window starts at 0 over a buffer made of the former window and the pushed
\* value, and what every other variable reads is as before
C10_PushAtCapacity ==
    [][\A o \in ObjIds : \A v \in Val :
         (/\ SliceObj_push(o, v)
          /\ objs[o].vec # None
          /\ SliceObj_len(objs[o]) = SliceObj_cap(objs[o]))
         => /\ fault' = "none"
            /\ SliceObj_len(objs'[o]) = SliceObj_len(objs[o]) + 1
            /\ \A i \in 0..(SliceObj_len(objs[o]) - 1) :
                  SliceObj_get(objs'[o], i, vecs') = SliceObj_get(objs[o], i, vecs)
            /\ objs'[o].begin = 0
            /\ vecs'[objs'[o].vec].data
                 = Append(SubSeq(vecs[objs[o].vec].data, objs[o].begin + 1, objs[o].end), v)
            /\ \A x \in ObjIds \ {o} :
                  View(objs[x], vecs, hmaps)' = View(objs[x], vecs, hmaps)]_vars

\* ------------------------------------------------------------------------
\* Properties of the capacity arithmetic (SpecGrow)

\* C11: when try_grow_vec grew the capacity c to c', c' is at least the
\* requested length, at least 2 * c for c < 1024 and at least 1.25 * c for
\* c >= 1024; when the request fits, capacity and buffer are the old ones
C11_GrowthFactor ==
    /\ grow.vec = "new" =>
          /\ grow.soft_cap >= grow.len
          /\ grow.cap < 1024 => grow.soft_cap >= 2 * grow.cap
          /\ grow.cap >= 1024 => 4 * grow.soft_cap >= 5 * grow.cap
    /\ grow.cap >= grow.len => grow.soft_cap = grow.cap /\ grow.vec = "old"

\* ------------------------------------------------------------------------
\* Properties of the maps (SpecMap)

\* the hash map of the map object in variable o
Data(o) == hmaps[objs[o].map].data

InsertResult(m, k, v) ==
    LET hs == MapObj_Insert(m, k, v, hmaps)
    IN  /\ MapObj_Get(m, k, hs) = v
        /\ MapObj_TryGet(m, k, hs) = <<v>>
        /\ \A j \in Keys \ {k} : MapObj_TryGet(m, j, hs) = MapObj_TryGet(m, j, hmaps)

TouchResult(m, k) ==
    LET hs == MapObj_TouchKey(m, k, hmaps)
    IN  /\ MapObj_TryGet(m, k, hs) = <<MapObj_Get(m, k, hmaps)>>
        /\ \A j \in Keys \ {k} : MapObj_TryGet(m, j, hs) = MapObj_TryGet(m, j, hmaps)

C14_ClosedStaysClosed ==
    [][/\ \A id \in 1..Len(uvCells) :
            uvCells[id].state = "Closed" => uvCells'[id].state = "Closed"
       /\ \A pr \in uvCloneOf' : uvCells'[uvs'[pr[1]]] = uvCells'[uvs'[pr[2]]]]_vars

\* an upvalue that was created Open is read as Closed through a handle and
\* through its clone
C14_Witness ==
    \E pr \in uvCloneOf :
        /\ uvCells[uvs[pr[1]]].born = "Open"
        /\ uvCells[uvs[pr[1]]].state = "Closed"
        /\ uvCells[uvs[pr[2]]].state = "Closed"

\* ------------------------------------------------------------------------
\* Properties of the package (SpecPkg)

\* C15: a new package is not inited; after a step it is inited exactly if
\* it was before or the step is set_inited; set_inited leaves it without a
\* var_mapping and with the members and the name-to-slot map it had
C15_InitedOneWay ==
    /\ ~PackageVal_inited(pkg)
    /\ [][/\ PackageVal_inited(pkg') <=> (PackageVal_inited(pkg) \/ PackageVal_set_inited)
          /\ PackageVal_set_inited =>
                /\ pkg'.var_mapping = <<>>
                /\ pkg'.members = pkg.members
                /\ pkg'.member_indices = pkg.member_indices]_vars

\* an inited package that has members behind both names, after its
\* constructor mapping is gone
C15_Witness ==
    /\ PackageVal_inited(pkg)
    /\ DOMAIN pkg.member_indices = MemberNames
    /\ Len(pkg.members) = MaxMembers

\* ------------------------------------------------------------------------
\* Properties of the Emitter (SpecImport, SpecConst, SpecStore)

\* the opcodes of the instructions of code from index i on, n of them
OpsFrom(code, i, n) == [k \in 1..n |-> code[i + k - 1].op]

\* every IMPORT of the function is followed by its jump and the guarded call
GuardedCalls ==
    \A i \in 1..Len(func.code) :
        func.code[i].op = "IMPORT" =>
            /\ i + 5 <= Len(func.code)
            /\ OpsFrom(func.code, i + 1, 5) =
                 <<"JUMP_IF_NOT", "LOAD_PKG_FIELD", "RAW", "PRE_CALL", "CALL">>
            /\ func.code[i + 1].imm = <<4>>

PoolDeduped ==
    \A i, j \in 1..Len(func.consts) : identical(func.consts[i], func.consts[j]) => i = j

\* the instruction carries the constant c by itself: PUSH_IMM with the value
\* of an Int that fits an immediate, PUSH_TRUE or PUSH_FALSE for a bool
PushesItself(inst, c) ==
    \/ inst.op = "PUSH_IMM" /\ c.t = "Int" /\ FitsOpIndex(c) /\ inst.imm = <<AsOpIndex(c)>>
    \/ inst.op = "PUSH_TRUE" /\ c = GosBool(TRUE) /\ inst.imm = <<>>
    \/ inst.op = "PUSH_FALSE" /\ c = GosBool(FALSE) /\ inst.imm = <<>>

\* the instruction references entry i of the constant pool
PushesConst(inst, i) == inst.op = "PUSH_CONST" /\ inst.imm = <<i>>

\* what add_const last returned is the one index of a value identical to the
\* value it was given
AddConstReturnsEntry ==
    emitted.call = "add_const" =>
        /\ emitted.ret.kind = "Const"
        /\ IdenticalAt(func, emitted.cst) = {emitted.ret.i}

\* add_const of a value the pool holds returns the index of that entry and
\* leaves the pool as it is
AddConstHit ==
    (emitted'.call = "add_const" /\ IdenticalAt(func, emitted'.cst) # {}) =>
        /\ func'.consts = func.consts
        /\ IdenticalAt(func, emitted'.cst) = {emitted'.ret.i}

\* a load of the constant at index i appends one instruction, which either
\* references entry i or carries the value by itself, and leaves the pool alone
LoadOfConst ==
    (emitted'.call = "emit_load" /\ emitted'.index.kind = "Const" /\ func' # func) =>
        /\ func'.consts = func.consts
        /\ Len(func'.code) = Len(func.code) + 1
        /\ SubSeq(func'.code, 1, Len(func.code)) = func.code
        /\ LET inst == func'.code[Len(func'.code)]
               c == const_val(func, emitted'.index.i)
           IN  \/ PushesConst(inst, emitted'.index.i) /\ ~(c.t = "Int" /\ FitsOpIndex(c))
               \/ PushesItself(inst, c)

\* C17: constant-pool dedup: add_const of a value identical to an entry of
\* the pool returns the index of that entry and leaves the length of the pool
\* unchanged, so the pool never holds two identical entries; a load of a
\* constant is one PUSH_CONST that references its single entry, or, for an
\* Int that fits an immediate (and for a bool), an instruction that carries
\* the value itself and does not reference the pool.  Adding and loading one
\* literal twice so gives one entry referenced twice, or two such pushes.
C17_ConstDedup ==
    /\ [](PoolDeduped /\ AddConstReturnsEntry)
    /\ [][AddConstHit /\ LoadOfConst]_vars

\* add_const was given a value again that an instruction already references
\* in the pool, and the same entry is loaded a second time
C17_Witness ==
    /\ emitted.call = "emit_load"
    /\ Len(func.code) = 2
    /\ func.code[1] = func.code[2]
    /\ \E i \in 0..(Len(func.consts) - 1) :
         /\ PushesConst(func.code[2], i)
         /\ IdenticalAt(func, const_val(func, i)) = {i}
         /\ emitted.index = Const(i)

\* the call was emit_store with the blank identifier on the left
BlankStore(e) == e.call = "emit_store" /\ e.lhs = "Primitive" /\ e.index = Blank

\* on the function and the pairs as they are, emit_store of the blank
\* identifier returns normally and returns both as it was given them
BlankStoreReturns ==
    \A rhs_index \in RhsIndices : \A o \in StoreOps : \A patch_info \in {None} \cup FunctionKeys :
      \A typ \in ValueTypes : \A pos \in Positions :
        LET r == emit_store(func, pkg_pairs, Primitive(Blank), rhs_index, o, patch_info, typ, pos)
        IN  r.status = "ok" /\ r.f = func /\ r.pairs = pkg_pairs

\* C18: emit_store with the blank left-hand side, for every right-hand index,
\* operator (a shift with its operand type included), type, position and
\* patch info, returns without a fatal error, appends no instruction,
\* registers no patch pair and leaves the code, the position table and the
\* constant pool of the function as they were.
C18_BlankStoreNoOp ==
    /\ []BlankStoreReturns
    /\ [][(BlankStore(emitted') /\ emitted' # emitted) =>
            (func' = func /\ pkg_pairs' = pkg_pairs /\ fault' = fault)]_vars

\* a store to the blank identifier under a shift operator was compiled after
\* a store to a local had left its instruction
C18_Witness ==
    /\ BlankStore(emitted)
    /\ emitted.shift
    /\ fault = "none"
    /\ Len(func.code) = 1
    /\ func.code[1].op = "STORE_LOCAL"

\* ------------------------------------------------------------------------
\* Properties of zero_val and default_val (SpecMeta)

\* the definition at handle k is a slice type
IsSliceType(d) == d.tag = "NonPtr" /\ d.c = "Default" /\ metas[d.k].kind = "SliceOrArray"

\* the descriptors of the arena whose type is a slice, directly or as the
\* underlying type of a named type
SliceDescriptors ==
    {d \in Descriptors(metas) :
        \/ IsSliceType(d)
        \/ /\ d.tag = "NonPtr" /\ d.c = "Default" /\ metas[d.k].kind = "Named"
           /\ IsSliceType(metas[d.k].a)}

\* the slice a value is, looking through Named
SliceIn(v) == IF v.kind = "Named" THEN v.val[1] ELSE v

\* C19: for every descriptor whose type is a slice, directly or as the
\* underlying type of a named type, zero_val yields a nil slice (no backing
\* buffer) and default_val yields an empty slice that is not nil (length 0,
\* capacity 0, backing buffer present).
C19_ZeroNilDefaultEmpty ==
    \A d \in SliceDescriptors :
        /\ SliceIn(zero_val(d, metas)) = new_slice_nil
        /\ SliceIn(default_val(d, metas)) = new_slice_val(0, 0)

\* ------------------------------------------------------------------------
\* Properties of PointerObj (SpecPointer)

\* C20: two pointers of kind struct, array, slice or map compare equal if and
\* only if they hold the same shared allocation, whatever the contents of the
\* pointees and their count cells, and the comparison returns a boolean; two
\* slice-member or two struct-field pointers are equal iff they hold the same
\* allocation and the same index.
C20_PointerEqIsIdentity ==
    /\ (cmp.a.kind \in OwningKinds /\ cmp.b.kind \in OwningKinds) =>
          /\ cmp.result \in {"true", "false"}
          /\ cmp.result = "true" <=> (cmp.a.kind = cmp.b.kind /\ cmp.a.rc = cmp.b.rc)
    /\ (cmp.a.kind \in MemberKinds /\ cmp.b.kind = cmp.a.kind) =>
          /\ cmp.result \in {"true", "false"}
          /\ cmp.result = "true" <=> (cmp.a.rc = cmp.b.rc /\ cmp.a.index = cmp.b.index)


\* C21: ref_sub_one on a pointer of an owning kind (struct, array, slice,
\* map, slice element, struct field) lowers the count cell of that allocation
\* by exactly one and changes no other count cell; on a released or a
\* package-member pointer it changes no count cell.
RefSubOneStep == cmp'.result = "ref_sub_one" /\ fault' = "none" /\ cmp' # cmp

C21_RefSubOne ==
    [][RefSubOneStep =>
         IF cmp'.a.kind \in OwningKinds \cup MemberKinds
         THEN rcs' = [rcs EXCEPT ![cmp'.a.rc].rc = @ - 1]
         ELSE rcs' = rcs]_vars


\* the slots bound to identifiers are distinct and below the next slot
SlotsIssuedOnce ==
    \A j, k \in DOMAIN func.entities :
       func.entities[j].kind = "LocalVar" =>
          /\ func.entities[j].i < func.local_alloc
          /\ (k # j /\ func.entities[k].kind = "LocalVar") => func.entities[k].i # func.entities[j].i

\* add_local with an identifier that is bound, as a local or as a constant,
\* fails fatally
RebindIsFatal ==
    \A entity \in DOMAIN func.entities : add_local(func, entity).status = "panic"

\* a step binds no identifier anew and changes no binding
BindingsKept ==
    \A k \in DOMAIN func.entities :
       k \in DOMAIN func'.entities /\ func'.entities[k] = func.entities[k]

\* a call of add_local returns the next slot and binds the identifier to it
AddLocalReturnsNext ==
    (emitted'.call = "add_local" /\ emitted' # emitted) =>
       /\ emitted'.ret = LocalVar(func.local_alloc)
       /\ func'.local_alloc = func.local_alloc + 1
       /\ emitted'.entity # None => entity_index(func', emitted'.entity) = emitted'.ret

\* C22: the k-th call of add_local on a function (k = 0, 1, 2, ...) returns
\* LocalVar(k) with or without an identifier, the slots issued are never
\* issued again or changed, and add_local with an identifier that is already
\* bound (as a local or as a constant) is a fatal error, not a rebinding.
C22_AddLocalNextSlot ==
    /\ func.local_alloc = 0
    /\ [](SlotsIssuedOnce /\ RebindIsFatal)
    /\ [][BindingsKept /\ AddLocalReturnsNext]_vars

\* the second local is declared with an identifier, in a function that has
\* bound another identifier to a constant
C22_Witness ==
    /\ emitted.call = "add_local"
    /\ emitted.ret = LocalVar(1)
    /\ emitted.entity # None
    /\ \E k \in DOMAIN func.entities : func.entities[k].kind = "Const"


\* the step is a load or a store of a package member that returned
PkgAccessStep ==
    /\ emitted'.call \in {"emit_load", "emit_store"}
    /\ emitted'.index.kind = "PackageMember"
    /\ func' # func

\* the opcode of the access instruction of the call
AccessOp(e) == IF e.call = "emit_load" THEN "LOAD_PKG_FIELD" ELSE "STORE_PKG_FIELD"

\* the raw words among the instructions of c from position n + 1 on
RawWordsFrom(c, n) == {k \in (n + 1)..Len(c) : c[k].op = "RAW"}

\* C23: a load or a store of a package member appends the access instruction
\* (LOAD_PKG_FIELD / STORE_PKG_FIELD) immediately followed by exactly one raw
\* word that holds the package key, and registers exactly one patch pair
\* (package, identifier, function, code offset) whose code offset is the
\* index of the access instruction, also when a shift assignment emits a
\* cast before the store.
C23_PkgAccessPatched ==
    [][PkgAccessStep =>
         LET n == Len(func.code)
             m == Len(func'.code)
             np == Len(pkg_pairs')
         IN  /\ m = n + 2 + (IF emitted'.shift THEN 1 ELSE 0)
             /\ SubSeq(func'.code, 1, n) = func.code
             /\ func'.code[m - 1].op = AccessOp(emitted')
             /\ func'.code[m] = Instruction_from_u64(key_to_u64(emitted'.index.i))
             /\ RawWordsFrom(func'.code, n) = {m}
             /\ emitted'.shift => func'.code[n + 1].op = "CAST"
             /\ np = Len(pkg_pairs) + 1
             /\ SubSeq(pkg_pairs', 1, np - 1) = pkg_pairs
             /\ pkg_pairs'[np].pkg = emitted'.index.i
             /\ pkg_pairs'[np].ident = emitted'.index.j
             /\ pkg_pairs'[np].func \in FunctionKeys
             /\ pkg_pairs'[np].is_store = (emitted'.call = "emit_store")
             /\ func'.code[pkg_pairs'[np].index + 1].op = AccessOp(emitted')
             /\ pkg_pairs'[np].index + 1 = m - 1]_vars

\* a shift assignment to a member of the second package was compiled after a
\* load had left an instruction: the cast, the store and the raw word follow
C23_Witness ==
    /\ emitted.call = "emit_store"
    /\ emitted.index = PackageMember(2, 1)
    /\ emitted.shift
    /\ Len(func.code) = 4
    /\ func.code[2].op = "CAST"
    /\ func.code[3].op = "STORE_PKG_FIELD"
    /\ pkg_pairs # <<>>
    /\ pkg_pairs[Len(pkg_pairs)].index = 2


\* ------------------------------------------------------------------------
\* Properties of re-slicing (SpecReslice, SpecString)

\* the visible length of a window
WindowLen(w) == w.end - w.begin

\* C24: a re-slicing call on a string, a slice or an array of visible length
\* len returns, for every end bound e, a window whose end is the start of the
\* window re-sliced plus ((len + 1 + e) mod (len + 1)), which is in [0, len]:
\* e = -1 selects the full length, no window reaches outside the visible data
\* and no call fails.
C24_EndBoundNormalized ==
    str.call.fn # "none" =>
       LET len == WindowLen(str.call.recv)
           off == (len + 1 + str.call.e) % (len + 1)
       IN  /\ str.call.status = "ok"
           /\ off \in 0..len
           /\ str.call.out.end = str.call.recv.begin + off
           /\ str.call.e = -1 => str.call.out.end = str.call.recv.end
           /\ str.call.out.end \in str.call.recv.begin..str.call.recv.end


\* C25: re-slicing a string is relative to its window: for a string with the
\* visible content c, whatever its begin offset in the buffer,
\* slice(b, e) with 0 <= b <= e <= len(c) returns a string with the content
\* c[b..e] on the same buffer, so that re-slicing composes.
C25_StringSliceRelative ==
    [][(str'.call.fn = "StringObj::slice" /\ str'.call.e # -1 /\ str' # str) =>
         /\ str'.obj.data = str.obj.data
         /\ as_str(str'.obj) = SubSeq(as_str(str.obj), str'.call.b + 1, str'.call.e)]_vars


\* ------------------------------------------------------------------------
\* Properties of the constant pool and the code of a function

\* C26: add_const with an identifier binds it: after add_const(Some(entity), v)
\* has returned Const(i), entity_index(entity) is Const(i) and const_val(i) is
\* identical to v, whether or not the pool held a value identical to v.
C26_AddConstBinds ==
    (emitted.call = "add_const" /\ emitted.entity # None) =>
       /\ emitted.ret.kind = "Const"
       /\ entity_index(func, emitted.entity) = emitted.ret
       /\ identical(const_val(func, emitted.ret.i), emitted.cst)


\* the code and the position table have the same length
CodePosParallel == Len(func.code) = Len(func.pos)

\* a step keeps the entries the code and the position table hold, in place
OnlyAppends ==
    /\ Len(func'.code) >= Len(func.code)
    /\ SubSeq(func'.code, 1, Len(func.code)) = func.code
    /\ Len(func'.pos) >= Len(func.pos)
    /\ SubSeq(func'.pos, 1, Len(func.pos)) = func.pos

\* C27: the code and the position table of a function stay parallel: after
\* any sequence of emit operations (emit_inst, emit_raw_inst, push_inst_pos,
\* emit_code_with_flag_imm, and load, store, import, cast, call and return of
\* the Emitter) they have the same length, each operation only appends, and
\* no earlier entry is removed or moved.
C27_CodePosParallel == []CodePosParallel /\ [][OnlyAppends]_vars

\* a compound store to a package member (cast, store, raw word) was emitted
\* after an instruction at another source position
C27_Witness ==
    /\ emitted.call = "emit_store"
    /\ Len(func.code) = 4
    /\ Len(func.pos) = 4
    /\ func.code[4].op = "RAW"
    /\ func.pos[1] # func.pos[4]


\* ------------------------------------------------------------------------
\* Properties of push, append and deep_clone on every window (SpecObj)

\* C28: what is pushed becomes the last visible element: for every non-nil
\* slice of length L, however constructed, re-sliced and pushed to (a window
\* that ends before the end of the buffer, with a capacity above L,
\* included), push(v) leaves a slice of length L + 1 whose get(L) is v, and
\* append(vs) leaves the elements of vs, in order, from index L on.
C28_PushedIsLast ==
    [][\A o \in ObjIds :
         /\ \A v \in Val :
               (SliceObj_push(o, v) /\ objs[o].vec # None)
               => /\ fault' = "none"
                  /\ SliceObj_len(objs'[o]) = SliceObj_len(objs[o]) + 1
                  /\ SliceObj_get(objs'[o], SliceObj_len(objs[o]), vecs') = <<v>>
         /\ \A vals \in {<<>>, <<1>>, <<1, 0>>} :
               (SliceObj_append(o, vals) /\ objs[o].vec # None)
               => /\ fault' = "none"
                  /\ SliceObj_len(objs'[o]) = SliceObj_len(objs[o]) + Len(vals)
                  /\ \A i \in 1..Len(vals) :
                        SliceObj_get(objs'[o], SliceObj_len(objs[o]) + i - 1, vecs')
                          = <<vals[i]>>]_vars


\* C29: push and append on a non-nil slice terminate: from every capacity,
\* capacity 0 (the empty non-nil slice of default_val or new(0, 0)) included,
\* the loop of grow_vec reaches a capacity that covers the required length
\* in finitely many iterations: while the capacity is below the length, an
\* iteration raises it.
C29_GrowLoopTerminates ==
    (grow.vec = "loop" /\ grow.soft_cap < grow.len) => GrowBody(grow.soft_cap) > grow.soft_cap


\* C30: deep_clone of a slice keeps the visible contents: for every non-nil
\* slice of length L and capacity C >= L the clone has length L, its elements
\* 0..L-1 are those of the original in order, and its window
\* (begin <= end <= soft capacity) does not pass the number of elements that
\* its buffer holds.
C30_DeepCloneVisible ==
    [][\A o, d \in ObjIds :
         (SliceObj_deep_clone(o, d) /\ objs[o].vec # None)
         => /\ fault' = "none"
            /\ SliceObj_len(objs'[d]) = SliceObj_len(objs[o])
            /\ \A i \in 0..(SliceObj_len(objs[o]) - 1) :
                  SliceObj_get(objs'[d], i, vecs') = SliceObj_get(objs[o], i, vecs)
            /\ objs'[d].begin <= objs'[d].end
            /\ objs'[d].end <= objs'[d].soft_cap
            /\ objs'[d].end <= Len(vecs'[objs'[d].vec].data)]_vars

====
